---- MODULE Spec2Model ----
(***************************************************************************)
(* The request -> rate limiter -> cache -> provider pipeline of the AI     *)
(* gateway: the three plugins (chatgpt, flux, chatterbox), the cache       *)
(* manager, the PostgreSQL cache tables and the MinIO buckets.             *)
(*                                                                         *)
(* One invocation of process_request is a sequence of steps, one per       *)
(* suspension point (await) of the coroutine: Begin runs up to the cache   *)
(* probe, Probe runs up to the provider call, Call and Fetch receive the   *)
(* provider's answers and run to the return.  Code between two awaits runs *)
(* without interruption on the event loop, so it is part of one action.    *)
(***************************************************************************)
EXTENDS Integers, Sequences, FiniteSets, TLC

\* ------------------------------------------------------------ bounds
Slack == 2           \* free slots of every rate window at the start of a run
MaxVer == 2          \* distinct answers the provider may give to one request
TickStep == 30       \* seconds by which the clock advances in one step
MaxTime == 90        \* last clock reading explored

\* ------------------------------------------------- program constants
plugin_rate_limit_per_minute == 20
flux_rate_limit == 5
chatterbox_rate_limit == 10
minute == 60

Plugins == {"chatgpt", "flux", "chatterbox"}
Users == {"u1", "u2"}
\* The clients of a run.  Each sends one request over and over and has at
\* most one invocation in flight.
Procs == {1, 2}

\* Python's None, and the values `not x` holds of
None == "<None>"
Falsy(v) == v \in {None, ""}

\* dict.get(key, default)
Get(d, k, default) == IF k \in DOMAIN d THEN d[k] ELSE default

\* ---------------------------------------------------------- requests
\* request_data dictionaries, by plugin.  A key left out is a key the
\* caller did not send.
ChatGPTRequests ==
    { [prompt |-> "hello", context |-> "text"],
      [prompt |-> "", context |-> "text"],
      [prompt |-> "", context |-> "imagecsv", image_data |-> "img"],
      [prompt |-> "hello", context |-> "imagecsv"] }

FluxRequests ==
    { [prompt |-> "cat", text |-> "hi"],
      [prompt |-> ""] }

ChatterboxRequests ==
    { [prompt |-> "cat", text |-> "hi"],
      [text |-> "hi", language |-> "xx"],
      [text |-> "hi", emotion |-> "bored"],
      [language |-> "en"] }

RequestsOf(p) ==
    CASE p = "chatgpt" -> ChatGPTRequests
      [] p = "flux" -> FluxRequests
      [] p = "chatterbox" -> ChatterboxRequests

supported_languages ==
    { "ar", "da", "de", "el", "en", "es", "fi", "fr", "he", "hi", "it", "ja",
      "ko", "ms", "nl", "no", "pl", "pt", "ru", "sv", "sw", "tr", "zh" }

emotion_presets ==
    { "neutral", "happy", "sad", "angry", "excited", "calm", "dramatic" }

validate_language(language_code) == language_code \in supported_languages

validate_emotion(emotion) == emotion \in emotion_presets

\* ------------------------------------------------------- fingerprint
\* (generate_cache_key_NoUser is generate_cache_key hashing the request alone)
\* sha256 over json.dumps({"request": ..., "user_id": ...}, sort_keys=True):
\* the digest is modelled by the canonical document it is taken of, so two
\* keys are equal exactly when the documents are.
generate_cache_key_NoUser(request_data, user_id) ==
    [request |-> request_data, user_id |-> ""]

generate_cache_key(request_data, user_id) ==
    [request |-> request_data, user_id |-> user_id]

\* A value json.dumps cannot encode (bytes, a set, an object)
Unserializable == "<object>"

\* json.dumps(request_data) returns: every value can be encoded
Serializable(request_data) ==
    \A k \in DOMAIN request_data : request_data[k] # Unserializable

\* Requests that hold such a value, by plugin
UnserializableRequests(plugin) ==
    CASE plugin = "chatgpt" ->
           { [prompt |-> "hello", context |-> "text",
              image_data |-> Unserializable] }
      [] plugin = "flux" -> { [prompt |-> "cat", seed |-> Unserializable] }
      [] plugin = "chatterbox" ->
           { [text |-> "hi", audio_prompt_path |-> Unserializable] }

\* ------------------------------------------------------------ values
\* json.dumps(x): the JSON text of x.  It is a string, not a mapping.
Dumps(x) == [json |-> x]
IsText(v) == DOMAIN v = {"json"}

NoBody == [kind |-> "none"]
EmptyBytes == [kind |-> "bytes", empty |-> TRUE]
\* The answer of the provider to one call: it names the call it answers
\* (plugin, user, request) and which of the provider's possible answers to
\* that call it is.
Content(plugin, user_id, request_data, ver) ==
    [kind |-> "content", plugin |-> plugin, user_id |-> user_id,
     request |-> request_data, ver |-> ver]

\* The dictionaries process_request returns.
Result(from_cache, error_type, body, listed) ==
    [from_cache |-> from_cache, error_type |-> error_type, body |-> body,
     listed |-> listed]
\* An error result carries the key "error", the message, beside its type.
Failure(result) == result @@ [error |-> "message"]
Error(error_type) == Failure(Result(FALSE, error_type, NoBody, {}))
NoResult == Result(FALSE, "pending", NoBody, {})

\* ----------------------------------------------------- rate limiter
RateLimitOf(p) ==
    CASE p = "chatgpt" -> plugin_rate_limit_per_minute
      [] p = "flux" -> flux_rate_limit
      [] p = "chatterbox" -> chatterbox_rate_limit

\* [req_time for req_time in window if req_time > current_time - 60]
Prune(window, current_time) ==
    SelectSeq(window, LAMBDA req_time : req_time > current_time - minute)

\* check_rate_limit comparing with `>`: one call more than the limit passes.
check_rate_limit_OffByOne(window, limit, current_time) ==
    IF Len(Prune(window, current_time)) > limit
    THEN [allowed |-> FALSE, window |-> Prune(window, current_time)]
    ELSE [allowed |-> TRUE,
          window |-> Append(Prune(window, current_time), current_time)]

\* check_rate_limit appending to a copy of the window read before another
\* call appended to it: the other call's timestamp is lost.
check_rate_limit_LostUpdate(window, limit, current_time) ==
    IF Len(Prune(window, current_time)) >= limit
    THEN [allowed |-> FALSE, window |-> Prune(window, current_time)]
    ELSE [allowed |-> TRUE,
          window |-> IF Len(window) > 0 /\ window[Len(window)] = current_time
                     THEN Append(SubSeq(Prune(window, current_time), 1,
                                        Len(Prune(window, current_time)) - 1),
                                 current_time)
                     ELSE Append(Prune(window, current_time), current_time)]

\* check_rate_limit recording the time of every call, rejected ones too.
check_rate_limit_RecordsRejected(window, limit, current_time) ==
    IF Len(Prune(window, current_time)) >= limit
    THEN [allowed |-> FALSE,
          window |-> Append(Prune(window, current_time), current_time)]
    ELSE [allowed |-> TRUE,
          window |-> Append(Prune(window, current_time), current_time)]

\* check_rate_limit(user_id) on the user's window: what it returns and the
\* window it leaves.  It contains no await, so it runs as one step.
check_rate_limit(window, limit, current_time) ==
    IF Len(Prune(window, current_time)) >= limit
    THEN [allowed |-> FALSE, window |-> Prune(window, current_time)]
    ELSE [allowed |-> TRUE,
          window |-> Append(Prune(window, current_time), current_time)]

\* ------------------------------------------------- structured store
\* A row of table cache_<plugin>.  request_data and response_data hold the
\* JSON text handed to the query.
NoRow == [kind |-> "none"]

Hit(table, cache_key) == \E r \in table : r.cache_key = cache_key

RowOf(table, cache_key) == CHOOSE r \in table : r.cache_key = cache_key

\* set_cache as a plain INSERT that adds a row whatever the table holds.
set_cache_Insert(table, cache_key, request_data, response_data, user_id, ts) ==
    table \cup
      { [cache_key |-> cache_key,
         request_data |-> Dumps(request_data),
         response_data |-> Dumps(response_data),
         user_id |-> user_id,
         created_at |-> ts,
         accessed_at |-> ts] }

\* set_cache writing the row without its owner.
set_cache_NoOwner(table, cache_key, request_data, response_data, user_id, ts) ==
    IF Hit(table, cache_key)
    THEN { IF r.cache_key = cache_key
           THEN [r EXCEPT !.response_data = Dumps(request_data),
                          !.accessed_at = ts]
           ELSE r : r \in table }
    ELSE table \cup
           { [cache_key |-> cache_key,
              request_data |-> Dumps(request_data),
              response_data |-> Dumps(response_data),
              user_id |-> "",
              created_at |-> ts,
              accessed_at |-> ts] }

\* INSERT ... VALUES ($1, $2, $3, $4) ON CONFLICT (cache_key) DO UPDATE SET
\* response_data = $2, accessed_at = CURRENT_TIMESTAMP, called with
\* $2 = json.dumps(request_data) and $3 = json.dumps(response_data).
set_cache(table, cache_key, request_data, response_data, user_id, ts) ==
    IF Hit(table, cache_key)
    THEN { IF r.cache_key = cache_key
           THEN [r EXCEPT !.response_data = Dumps(request_data),
                          !.accessed_at = ts]
           ELSE r : r \in table }
    ELSE table \cup
           { [cache_key |-> cache_key,
              request_data |-> Dumps(request_data),
              response_data |-> Dumps(response_data),
              user_id |-> user_id,
              created_at |-> ts,
              accessed_at |-> ts] }

\* get_cache taking the row it read out of the table.
get_cache_touch_Expiring(table, cache_key, ts) ==
    { r \in table : r.cache_key # cache_key }

\* get_cache setting created_at along with accessed_at.
get_cache_touch_Created(table, cache_key, ts) ==
    { IF r.cache_key = cache_key
      THEN [r EXCEPT !.accessed_at = ts, !.created_at = ts]
      ELSE r : r \in table }

\* UPDATE ... SET accessed_at = CURRENT_TIMESTAMP WHERE cache_key = $1
\* RETURNING response_data: the table it leaves
get_cache_touch(table, cache_key, ts) ==
    { IF r.cache_key = cache_key THEN [r EXCEPT !.accessed_at = ts] ELSE r :
      r \in table }

\* ... and the value fetchval returns: the column as it was stored, None
\* when no row matched.  Nothing on the way decodes the JSON text.
get_cache(table, cache_key) ==
    IF Hit(table, cache_key)
    THEN RowOf(table, cache_key).response_data
    ELSE NoRow

\* DatabaseManager.clear_plugin_cache deleting every row, whoever owns it.
db_clear_plugin_cache_AllRows(table, user_id) == {}

\* DatabaseManager.clear_plugin_cache: DELETE FROM cache_<plugin> WHERE
\* user_id = $1 when a user is given, DELETE FROM cache_<plugin> otherwise.
db_clear_plugin_cache(table, user_id) ==
    IF ~Falsy(user_id)
    THEN { r \in table : r.user_id # user_id }
    ELSE {}

\* ------------------------------------------------------- blob store
\* An object of bucket <plugin>-cache.
NoObject == [kind |-> "none"]

HasObject(bucket, cache_key) == \E o \in bucket : o.key = cache_key

\* put_object: replaces the object of that name
set_file_cache(bucket, cache_key, file_data, content_type) ==
    { o \in bucket : o.key # cache_key } \cup
      { [key |-> cache_key, data |-> file_data, content_type |-> content_type] }

\* get_object(...).read(); NoSuchKey is None
get_file_cache(bucket, cache_key) ==
    IF HasObject(bucket, cache_key)
    THEN (CHOOSE o \in bucket : o.key = cache_key).data
    ELSE NoObject

\* MinIOManager.clear_plugin_cache: the objects are listed and removed one
\* by one.  `kept` are the objects still there when the loop ends: none when
\* it ran to its end, those not yet removed when a call raised S3Error.
minio_clear_plugin_cache(bucket, kept) == bucket \cap kept

\* `if cached:` of Python: None and the empty byte string are false
Truthy(v) == v # NoRow /\ v # EmptyBytes

ContentTypeOf(plugin) == IF plugin = "flux" THEN "image/png" ELSE "audio/wav"

UsesBlobStore(plugin) == plugin \in {"flux", "chatterbox"}

\* -------------------------------------------------------- validation
\* The checks of process_request between the cache probe and the provider
\* call: the error result they return, NoResult when they pass.
ValidateChatGPT(request_data) ==
    IF Get(request_data, "context", "text") = "imagecsv"
    THEN IF "image_data" \in DOMAIN request_data
         THEN NoResult
         ELSE Error("missing_image")
    ELSE IF Falsy(Get(request_data, "prompt", ""))
         THEN Error("missing_prompt")
         ELSE NoResult

ValidateFlux(request_data) ==
    IF Falsy(Get(request_data, "prompt", None))
    THEN Error("missing_prompt")
    ELSE NoResult

ValidateChatterbox(request_data) ==
    IF Falsy(Get(request_data, "text", None))
    THEN Error("missing_text")
    ELSE IF ~validate_language(Get(request_data, "language", "en"))
    THEN Failure(Result(FALSE, "invalid_language", NoBody, supported_languages))
    ELSE IF ~validate_emotion(Get(request_data, "emotion", "neutral"))
    THEN Failure(Result(FALSE, "invalid_emotion", NoBody, emotion_presets))
    ELSE NoResult

Validate(plugin, request_data) ==
    CASE plugin = "chatgpt" -> ValidateChatGPT(request_data)
      [] plugin = "flux" -> ValidateFlux(request_data)
      [] plugin = "chatterbox" -> ValidateChatterbox(request_data)

\* The write of the result made for every context.
Cacheable_Always(request_data) == TRUE

\* context_name != "imagecsv": the contexts whose result is cached
Cacheable(request_data) == Get(request_data, "context", "text") # "imagecsv"

\* --------------------------------------------------------------- state
VARIABLES
    now,            \* time.time() and the database's CURRENT_TIMESTAMP
    cache_enabled,  \* settings.cache_enabled
    rate_limiter,   \* plugin -> user_id -> the list of admitted timestamps
    db,             \* plugin -> the rows of table cache_<plugin>
    minio,          \* plugin -> the objects of bucket <plugin>-cache
    inv,            \* client -> the invocation of process_request it runs
    client,         \* client -> the plugin, user and request_data it sends
    admitted,       \* plugin -> user_id -> the times, within the last minute,
                    \* of the calls check_rate_limit returned True for
    reply,          \* the last call of an endpoint of main.py and its answer
    hashing,        \* two calls of generate_cache_key and what they returned
    refresh,        \* a call of should_force_refresh and what it returned
    fetch,          \* a call of db.get_cache and what it returned
    app             \* lifespan: where the startup stands, and the tables
                    \* and buckets that exist

vars == <<now, cache_enabled, rate_limiter, db, minio, inv, client, admitted,
          reply, hashing, refresh, fetch, app>>

\* What process_request leaves alone: the endpoints' answers, the calls of
\* generate_cache_key, should_force_refresh and db.get_cache made on their
\* own, and the partitions the startup made.
beside == <<hashing, refresh, fetch, app>>
elsewhere == <<reply, beside>>

\* No endpoint was called yet.
NoReply ==
    [pc |-> "idle", endpoint |-> "none", status |-> 0, plugin |-> "none",
     user_id |-> None, removed |-> FALSE, store_error |-> FALSE,
     started |-> 0, missed |-> {}]

\* generate_cache_key was not called on its own.
NotHashing == [pc |-> "idle"]

\* should_force_refresh was not called on its own.
NoRefresh == [pc |-> "idle"]

\* db.get_cache was not called on its own.
NoFetch == [pc |-> "idle"]

\* The startup is over: lifespan created the table and the bucket of every
\* plugin and yielded, the application serves requests.
\* `failed` records that a call of the startup raised, `ensured` the calls
\* of create_plugin_table and create_plugin_bucket that returned.
Serving ==
    [pc |-> "serving", at |-> Cardinality(Plugins), tables |-> Plugins,
     buckets |-> Plugins, failed |-> FALSE,
     ensured |-> {"table", "bucket"} \X Plugins]

\* The designated store of the plugin holds an entry for the fingerprint.
Holds(plugin, cache_key) ==
    IF UsesBlobStore(plugin)
    THEN HasObject(minio[plugin], cache_key)
    ELSE Hit(db[plugin], cache_key)

\* An invocation: the arguments of process_request, where the coroutine
\* stands (pc), what it returned (result), and a record of what it did:
\* held (an entry for its fingerprint existed when it started or, if it
\* probed, when it probed), probed (it read the store), posts and gets (the
\* generation and retrieve-by-id calls it issued), wrote (it wrote the
\* store), store_error (a store call of it failed), allowed (what
\* check_rate_limit returned).
Invocation(plugin, user_id, request_data, force_refresh) ==
    [pc |-> "idle",
     plugin |-> plugin,
     user_id |-> user_id,
     request_data |-> request_data,
     force_refresh |-> force_refresh,
     cache_key |-> generate_cache_key(request_data, user_id),
     result |-> NoResult,
     held |-> Holds(plugin, generate_cache_key(request_data, user_id)),
     probed |-> FALSE,
     posts |-> 0,
     gets |-> 0,
     wrote |-> FALSE,
     store_error |-> FALSE,
     allowed |-> TRUE]

Idle == [Invocation("chatgpt", "u1", [prompt |-> ""], FALSE) EXCEPT
           !.held = FALSE]

Return(c, result) == [c EXCEPT !.pc = "done", !.result = result]

\* AfterProbe without the validation: every request goes to the provider.
AfterProbe_NoValidation(c) == [c EXCEPT !.pc = "call", !.posts = @ + 1]

\* process_request from the validation to the provider call
AfterProbe(c) ==
    IF Validate(c.plugin, c.request_data) # NoResult
    THEN Return(c, Validate(c.plugin, c.request_data))
    ELSE [c EXCEPT !.pc = "call", !.posts = @ + 1]

\* Admitted with the force_refresh flag ignored: the cache is always probed.
Admitted_AlwaysProbe(c) == [c EXCEPT !.pc = "probe"]

\* cache_manager.generate_cache_key(request_data, user_id): json.dumps
\* raises TypeError for a value it cannot encode, and the handler `except
\* Exception` of process_request returns an api_error result.  Then
\* `if not force_refresh:` the cache is probed, otherwise the probe is skipped
Admitted(c) ==
    IF ~Serializable(c.request_data)
    THEN Return(c, Error("api_error"))
    ELSE IF ~c.force_refresh THEN [c EXCEPT !.pc = "probe"] ELSE AfterProbe(c)

\* RateLimited with the verdict of the rate limiter ignored.
RateLimited_Ignored(c) == Admitted(c)

\* `if not self.check_rate_limit(user_id): return {...}`
RateLimited(c) == Return(c, Error("rate_limit"))

\* OnProbe without the handler `except Exception` of process_request: the
\* TypeError leaves the coroutine.
OnProbe_Propagates(c, cached) ==
    IF Truthy(cached)
    THEN IF UsesBlobStore(c.plugin)
         THEN Return(c, Result(TRUE, "none", cached, {}))
         ELSE [c EXCEPT !.pc = "raised"]
    ELSE AfterProbe(c)

\* process_request after the cache probe returned `cached`.  The blob
\* plugins build a result around the bytes.  The chatgpt plugin assigns
\* cached_response["from_cache"] = True: on a mapping that tags the cached
\* result, on JSON text it raises TypeError, which the handler of
\* process_request turns into an api_error result.
OnProbe(c, cached) ==
    IF Truthy(cached)
    THEN IF UsesBlobStore(c.plugin)
         THEN Return(c, Result(TRUE, "none", cached, {}))
         ELSE IF IsText(cached)
              THEN Return(c, Error("api_error"))
              ELSE Return(c, [cached EXCEPT !.from_cache = TRUE])
    ELSE AfterProbe(c)

\* ------------------------------------------------------------- actions
\* Client p's invocation becomes c.  A returned invocation stays on record
\* until the next step, so a state shows the result of the step that led to
\* it and the invocations still in flight.
Settle(p, c) ==
    [q \in Procs |->
       IF q = p THEN c ELSE IF inv[q].pc = "done" THEN Idle ELSE inv[q]]

\* Begin with one window per user, shared by the plugins: the window the
\* call leaves is the user's window for every plugin.
Begin_SharedWindow(p, plugin, user_id, request_data, force_refresh) ==
    /\ inv[p].pc \in {"idle", "done"}
    /\ LET rl == check_rate_limit(rate_limiter[plugin][user_id],
                                  RateLimitOf(plugin), now)
           c == [Invocation(plugin, user_id, request_data, force_refresh)
                   EXCEPT !.allowed = rl.allowed]
       IN  /\ rate_limiter' = [a \in Plugins |->
                                 [rate_limiter[a] EXCEPT ![user_id] = rl.window]]
           /\ inv' = Settle(p, IF rl.allowed THEN Admitted(c) ELSE RateLimited(c))
           /\ admitted' = [admitted EXCEPT ![plugin][user_id] =
                             IF rl.allowed THEN Append(@, now) ELSE @]
    /\ UNCHANGED <<now, cache_enabled, db, minio, client, elsewhere>>

\* process_request(request_data, user_id, force_refresh) is called: the rate
\* limiter, the fingerprint and, when the probe is skipped, the validation.
Begin(p, plugin, user_id, request_data, force_refresh) ==
    /\ inv[p].pc \in {"idle", "done"}
    /\ LET rl == check_rate_limit(rate_limiter[plugin][user_id],
                                  RateLimitOf(plugin), now)
           c == [Invocation(plugin, user_id, request_data, force_refresh)
                   EXCEPT !.allowed = rl.allowed]
       IN  /\ rate_limiter' = [rate_limiter EXCEPT ![plugin][user_id] = rl.window]
           /\ inv' = Settle(p, IF rl.allowed THEN Admitted(c) ELSE RateLimited(c))
           /\ admitted' = [admitted EXCEPT ![plugin][user_id] =
                             IF rl.allowed THEN Append(@, now) ELSE @]
    /\ UNCHANGED <<now, cache_enabled, db, minio, client, elsewhere>>

\* CacheRead without the try/except of the cache manager: what the store
\* call raised reaches the plugin.
CacheRead_NoCatch(c, store_ok) ==
    IF ~cache_enabled
    THEN NoRow
    ELSE IF ~store_ok
         THEN Dumps("error")
         ELSE IF UsesBlobStore(c.plugin)
              THEN get_file_cache(minio[c.plugin], c.cache_key)
              ELSE get_cache(db[c.plugin], c.cache_key)

\* CacheRead with the switch not looked at
CacheRead_Enabled(c, store_ok) ==
    IF ~store_ok
    THEN NoRow
    ELSE IF UsesBlobStore(c.plugin)
         THEN get_file_cache(minio[c.plugin], c.cache_key)
         ELSE get_cache(db[c.plugin], c.cache_key)

\* get_text_cache / get_file_cache return.  store_ok = FALSE is a store call
\* that raises: the cache manager logs it and returns None.
CacheRead(c, store_ok) ==
    IF ~cache_enabled \/ ~store_ok
    THEN NoRow
    ELSE IF UsesBlobStore(c.plugin)
         THEN get_file_cache(minio[c.plugin], c.cache_key)
         ELSE get_cache(db[c.plugin], c.cache_key)

\* Probe giving the slot back to the window when the cache answers.
Probe_Refund(p, store_ok) ==
    /\ inv[p].pc = "probe"
    /\ LET c == [inv[p] EXCEPT
                   !.probed = cache_enabled,
                   !.held = Holds(inv[p].plugin, inv[p].cache_key),
                   !.store_error = cache_enabled /\ ~store_ok]
       IN  /\ inv' = Settle(p, OnProbe(c, CacheRead(c, store_ok)))
           /\ db' = IF ~UsesBlobStore(c.plugin) /\ cache_enabled /\ store_ok
                    THEN [db EXCEPT ![c.plugin] =
                            get_cache_touch(@, c.cache_key, now)]
                    ELSE db
           /\ rate_limiter' =
                IF Truthy(CacheRead(c, store_ok))
                THEN [rate_limiter EXCEPT ![c.plugin][c.user_id] =
                        SubSeq(@, 1, Len(@) - 1)]
                ELSE rate_limiter
    /\ UNCHANGED <<now, cache_enabled, minio, client, admitted, elsewhere>>

Probe(p, store_ok) ==
    /\ inv[p].pc = "probe"
    /\ LET c == [inv[p] EXCEPT
                   !.probed = cache_enabled,
                   !.held = Holds(inv[p].plugin, inv[p].cache_key),
                   !.store_error = cache_enabled /\ ~store_ok]
       IN  /\ inv' = Settle(p, OnProbe(c, CacheRead(c, store_ok)))
           /\ db' = IF ~UsesBlobStore(c.plugin) /\ cache_enabled /\ store_ok
                    THEN [db EXCEPT ![c.plugin] =
                            get_cache_touch(@, c.cache_key, now)]
                    ELSE db
    /\ UNCHANGED <<now, cache_enabled, rate_limiter, minio, client, admitted, elsewhere>>

\* The error result of a generation call that did not succeed: the handlers
\* of httpx.TimeoutException (flux, chatterbox) and Exception, and the checks
\* of the status and of the id in the answer.
CallError(c, outcome) ==
    CASE outcome = "timeout" ->
           IF c.plugin = "chatgpt" THEN Error("api_error") ELSE Error("timeout")
      [] outcome = "status" -> Error("api_error")
      [] outcome = "no_id" -> Error("generation_failed")
      [] outcome = "error" -> Error("api_error")

\* chat.completions.create returns: the result is built and, for a
\* cacheable context, written through set_text_cache.  store_ok = FALSE is a
\* write that raises, which the cache manager logs and drops.
CallTextOk(p, ver, store_ok) ==
    /\ inv[p].pc = "call"
    /\ inv[p].plugin = "chatgpt"
    /\ LET c == inv[p]
           result == Result(FALSE, "none",
                            Content(c.plugin, c.user_id, c.request_data, ver), {})
           writes == Cacheable(c.request_data) /\ cache_enabled
       IN  /\ inv' = Settle(p,
                        Return([c EXCEPT !.wrote = writes /\ store_ok,
                                         !.store_error = @ \/ (writes /\ ~store_ok)],
                               result))
           /\ db' = IF writes /\ store_ok
                    THEN [db EXCEPT ![c.plugin] =
                            set_cache(@, c.cache_key, c.request_data, result,
                                      c.user_id, now)]
                    ELSE db
    /\ UNCHANGED <<now, cache_enabled, rate_limiter, minio, client, admitted, elsewhere>>

\* chat.completions.create raises (a timeout or any other failure)
CallTextFail(p, outcome) ==
    /\ inv[p].pc = "call"
    /\ inv[p].plugin = "chatgpt"
    /\ inv' = Settle(p, Return(inv[p], CallError(inv[p], outcome)))
    /\ UNCHANGED <<now, cache_enabled, rate_limiter, db, minio, client, admitted, elsewhere>>

\* client.post(".../generate") of the flux and chatterbox plugins returns
\* status 200 with an id: the artifact is asked for
CallBlobOk(p) ==
    /\ inv[p].pc = "call"
    /\ UsesBlobStore(inv[p].plugin)
    /\ inv' = Settle(p, [inv[p] EXCEPT !.pc = "fetch", !.gets = @ + 1])
    /\ UNCHANGED <<now, cache_enabled, rate_limiter, db, minio, client, admitted, elsewhere>>

\* CallBlobFail with one more attempt: a call that failed is issued again.
CallBlobFail_Retry(p, outcome) ==
    /\ inv[p].pc = "call"
    /\ UsesBlobStore(inv[p].plugin)
    /\ inv' = Settle(p, IF inv[p].posts < 2
                        THEN [inv[p] EXCEPT !.posts = @ + 1]
                        ELSE Return(inv[p], CallError(inv[p], outcome)))
    /\ UNCHANGED <<now, cache_enabled, rate_limiter, db, minio, client, admitted, elsewhere>>

\* ... or it fails: another status, no id in the answer, a timeout, an error
CallBlobFail(p, outcome) ==
    /\ inv[p].pc = "call"
    /\ UsesBlobStore(inv[p].plugin)
    /\ inv' = Settle(p, Return(inv[p], CallError(inv[p], outcome)))
    /\ UNCHANGED <<now, cache_enabled, rate_limiter, db, minio, client, admitted, elsewhere>>

FetchError(c, outcome) ==
    CASE outcome = "status" ->
           IF c.plugin = "flux"
           THEN Error("image_retrieval_failed")
           ELSE Error("audio_retrieval_failed")
      [] outcome = "timeout" -> Error("timeout")
      [] outcome = "error" -> Error("api_error")

\* FetchOk writing the artifact to the table of the plugin as well as to
\* its bucket.
FetchOk_BothStores(p, file_data, store_ok) ==
    /\ inv[p].pc = "fetch"
    /\ LET c == inv[p]
           writes == cache_enabled
       IN  /\ inv' = Settle(p,
                        Return([c EXCEPT !.wrote = writes /\ store_ok,
                                         !.store_error = @ \/ (writes /\ ~store_ok)],
                               Result(FALSE, "none", file_data, {})))
           /\ minio' = IF writes /\ store_ok
                       THEN [minio EXCEPT ![c.plugin] =
                               set_file_cache(@, c.cache_key, file_data,
                                              ContentTypeOf(c.plugin))]
                       ELSE minio
           /\ db' = IF writes /\ store_ok
                    THEN [db EXCEPT ![c.plugin] =
                            set_cache(@, c.cache_key, c.request_data,
                                      Result(FALSE, "none", file_data, {}),
                                      c.user_id, now)]
                    ELSE db
    /\ UNCHANGED <<now, cache_enabled, rate_limiter, client, admitted, elsewhere>>

\* client.get(".../image/<id>") returns status 200: the bytes are cached
\* through set_file_cache and returned
FetchOk(p, file_data, store_ok) ==
    /\ inv[p].pc = "fetch"
    /\ LET c == inv[p]
           writes == cache_enabled
       IN  /\ inv' = Settle(p,
                        Return([c EXCEPT !.wrote = writes /\ store_ok,
                                         !.store_error = @ \/ (writes /\ ~store_ok)],
                               Result(FALSE, "none", file_data, {})))
           /\ minio' = IF writes /\ store_ok
                       THEN [minio EXCEPT ![c.plugin] =
                               set_file_cache(@, c.cache_key, file_data,
                                              ContentTypeOf(c.plugin))]
                       ELSE minio
    /\ UNCHANGED <<now, cache_enabled, rate_limiter, db, client, admitted, elsewhere>>

\* ... or it fails
FetchFail(p, outcome) ==
    /\ inv[p].pc = "fetch"
    /\ inv' = Settle(p, Return(inv[p], FetchError(inv[p], outcome)))
    /\ UNCHANGED <<now, cache_enabled, rate_limiter, db, minio, client, admitted, elsewhere>>

\* The clock advances.
Tick ==
    /\ now + TickStep <= MaxTime
    /\ now' = now + TickStep
    /\ admitted' = [a \in Plugins |-> [u \in Users |->
                      SelectSeq(admitted[a][u], LAMBDA t : t > now' - minute)]]
    /\ inv' = [q \in Procs |-> IF inv[q].pc = "done" THEN Idle ELSE inv[q]]
    /\ UNCHANGED <<cache_enabled, rate_limiter, db, minio, client, elsewhere>>

\* What the provider may send back as the bytes of one call
FileData(c) ==
    { Content(c.plugin, c.user_id, c.request_data, ver) : ver \in 1..MaxVer }
      \cup {EmptyBytes}

\* ----------------------------------------------------------- endpoints
\* The callers of the cache endpoints, get_current_user's user_id and role:
\* every user with role "user", and one of them with role "admin" as well.
Callers ==
    [user_id : Users, role : {"user"}] \cup [user_id : {"u2"}, role : {"admin"}]

\* A plugin name that is not a key of PLUGINS
UnknownNames == {"nope"}

\* PLUGINS.get(name, <the first plugin>): an unknown name is served by chatgpt.
Lookup_Default(plugin_name) ==
    IF plugin_name \in Plugins THEN plugin_name ELSE "chatgpt"

\* `if plugin_name not in PLUGINS: raise 404`, else PLUGINS[plugin_name]
Lookup(plugin_name) ==
    IF plugin_name \in Plugins THEN plugin_name ELSE None

\* `if plugin_name not in PLUGINS: raise 404` of the cache endpoints
Registered(plugin_name) == plugin_name \in Plugins

\* cache_manager.clear_plugin_cache emptying the bucket whether or not a
\* user is given.
ClearsBucket_Always(user_id) == TRUE

\* cache_manager.clear_plugin_cache: `if not user_id:` the bucket is emptied
ClearsBucket(user_id) == Falsy(user_id)

\* `if current_user["role"] != "admin": raise 403`
MayClearPlugin(current_user) == current_user.role = "admin"

\* The authorization of the user-scoped clear with the owner not looked at.
MayClearUser_Anyone(current_user, user_id) == TRUE

\* `if current_user["role"] != "admin" and current_user["user_id"] != user_id:
\* raise 403`
MayClearUser(current_user, user_id) ==
    ~(current_user.role # "admin" /\ current_user.user_id # user_id)

\* What an endpoint answered (status 200, or the status of the HTTPException
\* it raised), for which plugin and user it was called, whether it removed
\* an entry, and where the coroutine stands: "blob" is a clear that
\* deleted the rows and has the bucket still to empty.  store_error records
\* that a store call of the clear raised, which the cache manager logged,
\* started the requests the plugin had admitted when the clear of the whole
\* plugin returned, and missed the clients whose request had missed the
\* cache and was with the provider when that clear was called.
Answer(pc, endpoint, status, plugin_name, user_id, removed) ==
    [pc |-> pc, endpoint |-> endpoint, status |-> status,
     plugin |-> plugin_name, user_id |-> user_id, removed |-> removed,
     store_error |-> FALSE, started |-> 0, missed |-> {}]

\* How many requests the plugin has admitted so far
Admissions(plugin_name) ==
    Cardinality(UNION { {u} \X (1..Len(admitted[plugin_name][u])) : u \in Users })

\* The clients whose request to the plugin is past a probe that found
\* nothing and has not returned
Missed(plugin_name) ==
    {p \in Procs : /\ inv[p].pc \in {"call", "fetch"}
                    /\ inv[p].plugin = plugin_name
                    /\ inv[p].probed}

\* Forgotten with an endpoint that cancels the requests in flight
Forgotten_Cancelled == [q \in Procs |-> Idle]

\* The invocations, the returned ones taken off the record
Forgotten == [q \in Procs |-> IF inv[q].pc = "done" THEN Idle ELSE inv[q]]

\* process_plugin_request(plugin_name, request, headers, current_user): 404
\* for a name that is not registered, plugin.process_request otherwise.
process_plugin_request(p, plugin_name, user_id, request_data, force_refresh) ==
    IF Lookup(plugin_name) = None
    THEN /\ inv[p].pc \in {"idle", "done"}
         /\ reply.pc # "blob"
         /\ reply' = Answer("done", "process", 404, plugin_name, user_id, FALSE)
         /\ inv' = Forgotten
         /\ UNCHANGED <<now, cache_enabled, rate_limiter, db, minio, client,
                        admitted, beside>>
    ELSE Begin(p, Lookup(plugin_name), user_id, request_data, force_refresh)

\* DELETE /cache/{plugin_name}/user/{user_id}: the authorization, the lookup
\* and cache_manager.clear_plugin_cache(plugin_name, user_id), which deletes
\* the user's rows and, a user being given, leaves the bucket alone.
\* db_ok = FALSE is a statement that raises: the cache manager logs it.
clear_user_cache(current_user, plugin_name, user_id, db_ok) ==
    /\ reply.pc # "blob"
    /\ IF ~MayClearUser(current_user, user_id)
       THEN /\ reply' = Answer("done", "user", 403, plugin_name, user_id, FALSE)
            /\ db' = db
       ELSE IF ~Registered(plugin_name)
       THEN /\ reply' = Answer("done", "user", 404, plugin_name, user_id, FALSE)
            /\ db' = db
       ELSE /\ db' = IF db_ok
                     THEN [db EXCEPT ![plugin_name] =
                             db_clear_plugin_cache(@, user_id)]
                     ELSE db
            /\ reply' = [Answer(IF db_ok /\ ClearsBucket(user_id)
                                THEN "blob" ELSE "done",
                                "user", 200, plugin_name, user_id, db' # db)
                           EXCEPT !.store_error = ~db_ok]
    /\ inv' = Forgotten
    /\ UNCHANGED <<now, cache_enabled, rate_limiter, minio, client, admitted,
                   beside>>

\* clear_plugin_cache with a cache manager that lets the failure of the
\* deletion through: the endpoint answers 500.
clear_plugin_cache_Propagates(current_user, plugin_name, db_ok) ==
    /\ reply.pc # "blob"
    /\ IF ~MayClearPlugin(current_user)
       THEN /\ reply' = Answer("done", "plugin", 403, plugin_name, None, FALSE)
            /\ db' = db
       ELSE IF ~Registered(plugin_name)
       THEN /\ reply' = Answer("done", "plugin", 404, plugin_name, None, FALSE)
            /\ db' = db
       ELSE /\ db' = IF db_ok
                     THEN [db EXCEPT ![plugin_name] =
                             db_clear_plugin_cache(@, None)]
                     ELSE db
            /\ reply' = [Answer(IF db_ok /\ ClearsBucket(None)
                                THEN "blob" ELSE "done",
                                "plugin", IF db_ok THEN 200 ELSE 500,
                                plugin_name, None, db' # db)
                           EXCEPT !.store_error = ~db_ok,
                                  !.started = Admissions(plugin_name),
                                  !.missed = Missed(plugin_name)]
    /\ inv' = Forgotten
    /\ UNCHANGED <<now, cache_enabled, rate_limiter, minio, client, admitted,
                   beside>>

\* DELETE /cache/{plugin_name}: the authorization, the lookup and the first
\* half of cache_manager.clear_plugin_cache(plugin_name), the deletion of
\* the rows.  A statement that raises ends the clear: the bucket is not
\* touched and the endpoint answers as it always does.
clear_plugin_cache(current_user, plugin_name, db_ok) ==
    /\ reply.pc # "blob"
    /\ IF ~MayClearPlugin(current_user)
       THEN /\ reply' = Answer("done", "plugin", 403, plugin_name, None, FALSE)
            /\ db' = db
       ELSE IF ~Registered(plugin_name)
       THEN /\ reply' = Answer("done", "plugin", 404, plugin_name, None, FALSE)
            /\ db' = db
       ELSE /\ db' = IF db_ok
                     THEN [db EXCEPT ![plugin_name] =
                             db_clear_plugin_cache(@, None)]
                     ELSE db
            /\ reply' = [Answer(IF db_ok /\ ClearsBucket(None)
                                THEN "blob" ELSE "done",
                                "plugin", 200, plugin_name, None, db' # db)
                           EXCEPT !.store_error = ~db_ok,
                                  !.started = Admissions(plugin_name),
                                  !.missed = Missed(plugin_name)]
    /\ inv' = Forgotten
    /\ UNCHANGED <<now, cache_enabled, rate_limiter, minio, client, admitted,
                   beside>>

\* The objects list_objects returns to a clear that has come to the bucket
Listed == IF reply.pc = "blob" THEN minio[reply.plugin] ELSE {}

\* ... and its second half, once the deletion of the rows returned:
\* minio_manager.clear_plugin_cache(plugin_name) and the answer.
clear_plugin_bucket(kept) ==
    /\ reply.pc = "blob"
    /\ minio' = [minio EXCEPT ![reply.plugin] =
                   minio_clear_plugin_cache(@, kept)]
    /\ reply' = [reply EXCEPT !.pc = "done",
                              !.removed = @ \/ minio' # minio,
                              !.store_error = minio'[reply.plugin] # {},
                              !.started = Admissions(reply.plugin)]
    /\ inv' = Forgotten
    /\ UNCHANGED <<now, cache_enabled, rate_limiter, db, client, admitted,
                   beside>>

\* ------------------------------------------------------- specification
\* The two clients are interchangeable: they are listed in this order.
PluginRank(a) ==
    CASE a = "chatgpt" -> 1 [] a = "flux" -> 2 [] a = "chatterbox" -> 3

Clients ==
    UNION { [plugin : {a}, user_id : Users, request_data : RequestsOf(a)] :
            a \in Plugins }

\* A window holding n admissions made at time 0
Filled(n) == [i \in 1..n |-> 0]

\* A run of Spec starts with empty stores, no invocation in flight and every
\* rate window Slack admissions short of its limit: the state the process is
\* in after that many requests that failed validation, which are admitted
\* and leave the stores as they are.  The clock stands still during the run.
Init ==
    /\ now = 0
    /\ cache_enabled = TRUE
    /\ rate_limiter = [a \in Plugins |-> [u \in Users |->
                         Filled(RateLimitOf(a) - Slack)]]
    /\ admitted = rate_limiter
    /\ db = [a \in Plugins |-> {}]
    /\ minio = [a \in Plugins |-> {}]
    /\ inv = [p \in Procs |-> Idle]
    /\ reply = NoReply
    /\ hashing = NotHashing
    /\ refresh = NoRefresh
    /\ app = Serving
    /\ fetch = NoFetch
    /\ client \in [Procs -> Clients]
    /\ client[1].user_id = "u1"
    /\ PluginRank(client[1].plugin) <= PluginRank(client[2].plugin)

Requests ==
    \E p \in Procs, force_refresh \in BOOLEAN :
      Begin(p, client[p].plugin, client[p].user_id, client[p].request_data,
            force_refresh)

Steps ==
    \/ \E p \in Procs, store_ok \in BOOLEAN : Probe(p, store_ok)
    \/ \E p \in Procs, ver \in 1..MaxVer, store_ok \in BOOLEAN :
         CallTextOk(p, ver, store_ok)
    \/ \E p \in Procs, outcome \in {"timeout", "error"} : CallTextFail(p, outcome)
    \/ \E p \in Procs : CallBlobOk(p)
    \/ \E p \in Procs, outcome \in {"status", "no_id", "timeout", "error"} :
         CallBlobFail(p, outcome)
    \/ \E p \in Procs, store_ok \in BOOLEAN :
         \E file_data \in FileData(inv[p]) : FetchOk(p, file_data, store_ok)
    \/ \E p \in Procs, outcome \in {"status", "timeout", "error"} :
         FetchFail(p, outcome)

Next == Requests \/ Steps

Spec == Init /\ [][Next]_vars

\* A run of SpecRate starts right after the process did: every rate window
\* is empty.  Both clients send the same request as the same user, so they
\* share one rate window, and the clock advances.  The request is one that
\* fails validation: it passes the rate limiter and the cache probe and
\* reaches no provider.
InitRate ==
    /\ now = 0
    /\ cache_enabled = TRUE
    /\ rate_limiter = [a \in Plugins |-> [u \in Users |-> <<>>]]
    /\ admitted = rate_limiter
    /\ db = [a \in Plugins |-> {}]
    /\ minio = [a \in Plugins |-> {}]
    /\ inv = [p \in Procs |-> Idle]
    /\ reply = NoReply
    /\ hashing = NotHashing
    /\ refresh = NoRefresh
    /\ app = Serving
    /\ fetch = NoFetch
    /\ \E c \in Clients :
         /\ c.user_id = "u1"
         /\ Validate(c.plugin, c.request_data) # NoResult
         /\ client = [p \in Procs |-> c]

\* Such a request never leaves process_request towards a provider, so the
\* steps of a run are the calls, the cache probes and the clock.
NextRate ==
    \/ Requests
    \/ \E p \in Procs, store_ok \in BOOLEAN : Probe(p, store_ok)
    \/ Tick

SpecRate == InitRate /\ [][NextRate]_vars

\* A run of SpecEndpoints starts as a run of Spec does, with two clients
\* whose requests meet the rules of their plugin and are cacheable.  Beside
\* them the endpoints are called: a request is dispatched under the name of
\* its plugin or under an unknown name, and callers of either role clear the
\* cache of the first client's plugin, for that plugin as a whole or for the
\* first client's user.  The stores answer every call of a plugin and the
\* providers answer every request, each request with one answer.
InitEndpoints ==
    /\ Init
    /\ \A p \in Procs :
         /\ Validate(client[p].plugin, client[p].request_data) = NoResult
         /\ Cacheable(client[p].request_data)

NextEndpoints ==
    \/ \E p \in Procs, force_refresh \in BOOLEAN :
         \E plugin_name \in {client[p].plugin} \cup UnknownNames :
           process_plugin_request(p, plugin_name, client[p].user_id,
                                  client[p].request_data, force_refresh)
    \/ \E p \in Procs : Probe(p, TRUE)
    \/ \E p \in Procs : CallTextOk(p, 1, TRUE)
    \/ \E p \in Procs : CallBlobOk(p)
    \/ \E p \in Procs :
         FetchOk(p, Content(inv[p].plugin, inv[p].user_id,
                            inv[p].request_data, 1), TRUE)
    \/ \E current_user \in Callers, db_ok \in BOOLEAN :
         \E plugin_name \in {client[1].plugin} \cup UnknownNames :
           clear_user_cache(current_user, plugin_name, client[1].user_id, db_ok)
    \/ \E current_user \in Callers, db_ok \in BOOLEAN :
         \E plugin_name \in {client[1].plugin} \cup UnknownNames :
           clear_plugin_cache(current_user, plugin_name, db_ok)
    \/ \E kept \in SUBSET Listed : clear_plugin_bucket(kept)

SpecEndpoints == InitEndpoints /\ [][NextEndpoints]_vars

\* ---------------------------------------- fingerprint of a built mapping
\* A Python dict keeps its items in the order they were inserted: a mapping
\* as its caller built it is the sequence of its <<key, value>> items, no key
\* twice.
MaxItems == 3
ParamKeys == {"context", "prompt", "style"}
ParamValues == {"text", "image"}

\* The order of str on the keys above.
KeyRank(k) ==
    CASE k = "context" -> 1
      [] k = "prompt" -> 2
      [] k = "style" -> 3

Mappings ==
    { items \in UNION { [1..n -> ParamKeys \X ParamValues] : n \in 0..MaxItems } :
        \A i, j \in DOMAIN items : i # j => items[i][1] # items[j][1] }

\* The key/value pairs a mapping holds, whatever order it was built in.
Pairs(items) == { items[i] : i \in DOMAIN items }

\* sort_keys=True: the items are written in the order of their keys.
RECURSIVE Insert(_, _)
Insert(item, sorted) ==
    IF sorted = <<>> THEN <<item>>
    ELSE IF KeyRank(item[1]) <= KeyRank(Head(sorted)[1])
         THEN <<item>> \o sorted
         ELSE <<Head(sorted)>> \o Insert(item, Tail(sorted))

RECURSIVE SortKeys(_)
SortKeys(items) ==
    IF items = <<>> THEN <<>>
    ELSE Insert(Head(items), SortKeys(Tail(items)))

\* json.dumps(cache_data), items written in the order they were inserted.
cache_str_AsBuilt(request_data, user_id) ==
    [request |-> request_data, user_id |-> user_id]

\* json.dumps(cache_data, sort_keys=True): the text lists the items of the
\* request in key order, then the user id.
cache_str(request_data, user_id) ==
    [request |-> SortKeys(request_data), user_id |-> user_id]

\* hashlib.sha256(text).hexdigest(): the digest stands for the text it is
\* taken of, so two digests are equal exactly when the texts are.
sha256(text) == [hexdigest |-> text]

KeyOfBuilt(request_data, user_id) == sha256(cache_str(request_data, user_id))

\* One call of generate_cache_key still to be made.
Call(request_data, user_id) ==
    [request_data |-> request_data, user_id |-> user_id]

\* Both calls are made, each returning its fingerprint.
Fingerprints ==
    /\ hashing.pc = "built"
    /\ hashing' =
         [hashing EXCEPT
            !.pc = "hashed",
            !.first = @ @@ [cache_key |-> KeyOfBuilt(@.request_data, @.user_id)],
            !.second = @ @@ [cache_key |-> KeyOfBuilt(@.request_data, @.user_id)]]
    /\ UNCHANGED <<now, cache_enabled, rate_limiter, db, minio, inv, client,
                   admitted, reply, refresh, fetch, app>>

\* A run of SpecKey starts with two mappings built and two user ids chosen;
\* no request is in flight and none is made during the run.
InitKey ==
    /\ now = 0
    /\ cache_enabled = TRUE
    /\ rate_limiter = [a \in Plugins |-> [u \in Users |-> <<>>]]
    /\ admitted = rate_limiter
    /\ db = [a \in Plugins |-> {}]
    /\ minio = [a \in Plugins |-> {}]
    /\ inv = [p \in Procs |-> Idle]
    /\ reply = NoReply
    /\ refresh = NoRefresh
    /\ app = Serving
    /\ fetch = NoFetch
    /\ client = [p \in Procs |->
                   [plugin |-> "chatgpt", user_id |-> "u1",
                    request_data |-> [prompt |-> "hello", context |-> "text"]]]
    /\ \E p, q \in Mappings, u, v \in Users :
         hashing = [pc |-> "built", first |-> Call(p, u), second |-> Call(q, v)]

NextKey == Fingerprints

SpecKey == InitKey /\ [][NextKey]_vars

\* ------------------------------------------------- force-refresh header
\* A str is the sequence of its characters.
Uppercase ==
    <<"A", "B", "C", "D", "E", "F", "G", "H", "I", "J", "K", "L", "M",
      "N", "O", "P", "Q", "R", "S", "T", "U", "V", "W", "X", "Y", "Z">>
Lowercase ==
    <<"a", "b", "c", "d", "e", "f", "g", "h", "i", "j", "k", "l", "m",
      "n", "o", "p", "q", "r", "s", "t", "u", "v", "w", "x", "y", "z">>

\* str.lower(): every capital is replaced by its small letter
lower(str) ==
    [i \in DOMAIN str |->
       IF \E k \in DOMAIN Uppercase : Uppercase[k] = str[i]
       THEN Lowercase[CHOOSE k \in DOMAIN Uppercase : Uppercase[k] = str[i]]
       ELSE str[i]]

\* str.upper()
upper(str) ==
    [i \in DOMAIN str |->
       IF \E k \in DOMAIN Lowercase : Lowercase[k] = str[i]
       THEN Uppercase[CHOOSE k \in DOMAIN Lowercase : Lowercase[k] = str[i]]
       ELSE str[i]]

\* settings.force_refresh_header, "X-Force-Refresh"
force_refresh_header ==
    <<"X", "-", "F", "o", "r", "c", "e", "-", "R", "e", "f", "r", "e", "s", "h">>

\* ["true", "1", "yes"]
truthy_values == { <<"t", "r", "u", "e">>, <<"1">>, <<"y", "e", "s">> }

\* The header names and values of the requests looked at, and the header
\* dictionaries made of at most MaxHeaders of them.
MaxHeaders == 2
HeaderNames ==
    { force_refresh_header, lower(force_refresh_header),
      upper(force_refresh_header),
      <<"X", "-", "F", "o", "r", "c", "e">>,
      <<"a", "c", "c", "e", "p", "t">> }
HeaderValues ==
    { <<"t", "r", "u", "e">>, <<"T", "r", "u", "e">>, <<"T", "R", "U", "E">>,
      <<"1">>, <<"y", "e", "s">>, <<"Y", "e", "S">>,
      <<"f", "a", "l", "s", "e">>, <<"0">>, <<"n", "o">>, <<"o", "n">>,
      <<"t", "r", "u", "e", " ">>, <<"y">>, <<>> }
HeaderDicts ==
    UNION { [names -> HeaderValues] :
            names \in { n \in SUBSET HeaderNames : Cardinality(n) <= MaxHeaders } }

\* should_force_refresh comparing the header's value as it was sent.
should_force_refresh_AsSent(headers) ==
    \E header \in DOMAIN headers :
      /\ lower(header) = lower(force_refresh_header)
      /\ headers[header] \in truthy_values

\* any(header.lower() == force_refresh_header and value.lower() in
\*     ["true", "1", "yes"] for header, value in headers.items())
should_force_refresh(headers) ==
    \E header \in DOMAIN headers :
      /\ lower(header) = lower(force_refresh_header)
      /\ lower(headers[header]) \in truthy_values

\* should_force_refresh(headers) returns.
ForceRefresh ==
    /\ refresh.pc = "called"
    /\ refresh' = [refresh EXCEPT !.pc = "done",
                                  !.result = should_force_refresh(refresh.headers)]
    /\ UNCHANGED <<now, cache_enabled, rate_limiter, db, minio, inv, client,
                   admitted, reply, hashing, fetch, app>>

\* A run of SpecHeaders starts with should_force_refresh called on the
\* headers of one request; no request is processed during the run.
InitHeaders ==
    /\ now = 0
    /\ cache_enabled = TRUE
    /\ rate_limiter = [a \in Plugins |-> [u \in Users |-> <<>>]]
    /\ admitted = rate_limiter
    /\ db = [a \in Plugins |-> {}]
    /\ minio = [a \in Plugins |-> {}]
    /\ inv = [p \in Procs |-> Idle]
    /\ reply = NoReply
    /\ hashing = NotHashing
    /\ app = Serving
    /\ fetch = NoFetch
    /\ client = [p \in Procs |->
                   [plugin |-> "chatgpt", user_id |-> "u1",
                    request_data |-> [prompt |-> "hello", context |-> "text"]]]
    /\ \E headers \in HeaderDicts :
         refresh = [pc |-> "called", headers |-> headers, result |-> FALSE]

NextHeaders == ForceRefresh

SpecHeaders == InitHeaders /\ [][NextHeaders]_vars

\* -------------------------------------------------------------- startup
\* PLUGINS.keys(), in the order of the registry
PluginOrder == <<"chatgpt", "flux", "chatterbox">>

\* CREATE TABLE IF NOT EXISTS cache_<plugin>: the tables there are after it
create_plugin_table(tables, plugin_name) ==
    IF plugin_name \in tables THEN tables ELSE tables \cup {plugin_name}

\* ... and the rows of cache_<plugin> after it: those it had if it was
\* there, none in the table just made.
RowsAfterCreate(tables, plugin_name, rows) ==
    IF plugin_name \in tables THEN rows ELSE {}

\* client.make_bucket(bucket_name): S3Error for a bucket that exists
make_bucket(buckets, plugin_name) ==
    IF plugin_name \in buckets
    THEN [raised |-> TRUE, buckets |-> buckets]
    ELSE [raised |-> FALSE, buckets |-> buckets \cup {plugin_name}]

\* create_plugin_bucket making the bucket without asking whether it exists.
create_plugin_bucket_NoCheck(buckets, plugin_name) ==
    make_bucket(buckets, plugin_name)

\* `if not self.client.bucket_exists(bucket_name): make_bucket(bucket_name)`
create_plugin_bucket(buckets, plugin_name) ==
    IF ~(plugin_name \in buckets)
    THEN make_bucket(buckets, plugin_name)
    ELSE [raised |-> FALSE, buckets |-> buckets]

\* ... and the objects of <plugin>-cache after it
ObjectsAfterCreate(buckets, plugin_name, objects) ==
    IF plugin_name \in buckets THEN objects ELSE {}

\* lifespan goes on: from db.connect() to the first plugin, from the table
\* of a plugin to its bucket, from the bucket to the next plugin and, after
\* the last one, to `yield`.
Advance(a) ==
    CASE a.pc = "connect" -> [a EXCEPT !.pc = "table", !.at = 1]
      [] a.pc = "table" -> [a EXCEPT !.pc = "bucket"]
      [] a.pc = "bucket" ->
           IF a.at < Len(PluginOrder)
           THEN [a EXCEPT !.pc = "table", !.at = @ + 1]
           ELSE [a EXCEPT !.pc = "serving"]

\* A call of the startup that logs what was raised and goes on.
Raised_Logged(a) == Advance([a EXCEPT !.failed = TRUE])

\* A call of the startup raises (connect and create_plugin_bucket log and
\* re-raise, create_plugin_table has no handler): the exception leaves
\* lifespan before `yield` and the application does not start.
Raised(a) == [a EXCEPT !.pc = "aborted", !.failed = TRUE]

\* await db.connect()
Connect(ok) ==
    /\ app.pc = "connect"
    /\ app' = IF ok THEN Advance(app) ELSE Raised(app)
    /\ UNCHANGED <<now, cache_enabled, rate_limiter, db, minio, inv, client,
                   admitted, reply, hashing, refresh, fetch>>

\* await db.create_plugin_table(plugin_name); ok = FALSE is a statement
\* that raises.
EnsureTable(ok) ==
    /\ app.pc = "table"
    /\ LET plugin_name == PluginOrder[app.at]
       IN  IF ok
           THEN /\ app' = Advance(
                    [app EXCEPT
                       !.tables = create_plugin_table(@, plugin_name),
                       !.ensured = @ \cup {<<"table", plugin_name>>}])
                /\ db' = [db EXCEPT ![plugin_name] =
                            RowsAfterCreate(app.tables, plugin_name, @)]
           ELSE /\ app' = Raised(app)
                /\ db' = db
    /\ UNCHANGED <<now, cache_enabled, rate_limiter, minio, inv, client,
                   admitted, reply, hashing, refresh, fetch>>

\* await minio_manager.create_plugin_bucket(plugin_name); ok = FALSE is a
\* store that answers bucket_exists or make_bucket with S3Error.
EnsureBucket(ok) ==
    /\ app.pc = "bucket"
    /\ LET plugin_name == PluginOrder[app.at]
           made == create_plugin_bucket(app.buckets, plugin_name)
       IN  IF ok /\ ~made.raised
           THEN /\ app' = Advance(
                    [app EXCEPT
                       !.buckets = made.buckets,
                       !.ensured = @ \cup {<<"bucket", plugin_name>>}])
                /\ minio' = [minio EXCEPT ![plugin_name] =
                               ObjectsAfterCreate(app.buckets, plugin_name, @)]
           ELSE /\ app' = Raised(app)
                /\ minio' = minio
    /\ UNCHANGED <<now, cache_enabled, rate_limiter, db, inv, client,
                   admitted, reply, hashing, refresh, fetch>>

\* lifespan reached `yield`: the application takes requests.
Accepting == app.pc = "serving"

\* A request reaches its endpoint.
Serve(p, force_refresh) ==
    /\ Accepting
    /\ process_plugin_request(p, client[p].plugin, client[p].user_id,
                              client[p].request_data, force_refresh)

\* What the stores may hold when the process starts: what an earlier run of
\* the server left in them.
EarlierRequest == [prompt |-> "hello", context |-> "text"]
EarlierRows ==
    set_cache({}, generate_cache_key(EarlierRequest, "u1"), EarlierRequest,
              Result(FALSE, "none",
                     Content("chatgpt", "u1", EarlierRequest, 1), {}),
              "u1", 0)
EarlierObjects ==
    set_file_cache({}, generate_cache_key([prompt |-> "cat"], "u1"),
                   Content("flux", "u1", [prompt |-> "cat"], 1), "image/png")

\* A run of SpecStartup starts with the process: lifespan is about to
\* connect, no request was made, and the stores hold the tables, buckets
\* and entries of earlier runs.
InitStartup ==
    /\ now = 0
    /\ cache_enabled = TRUE
    /\ rate_limiter = [a \in Plugins |-> [u \in Users |-> <<>>]]
    /\ admitted = rate_limiter
    /\ reply = NoReply
    /\ hashing = NotHashing
    /\ refresh = NoRefresh
    /\ fetch = NoFetch
    /\ client = [p \in Procs |->
                   [plugin |-> "chatgpt", user_id |-> "u1",
                    request_data |-> EarlierRequest]]
    /\ \E tables \in SUBSET Plugins, buckets \in SUBSET Plugins :
         /\ app = [pc |-> "connect", at |-> 0, tables |-> tables,
                   buckets |-> buckets, failed |-> FALSE, ensured |-> {}]
         /\ \E rows \in {{}, EarlierRows}, objects \in {{}, EarlierObjects} :
              /\ rows # {} => "chatgpt" \in tables
              /\ objects # {} => "flux" \in buckets
              /\ db = [a \in Plugins |-> IF a = "chatgpt" THEN rows ELSE {}]
              /\ minio = [a \in Plugins |-> IF a = "flux" THEN objects ELSE {}]
    /\ inv = [p \in Procs |-> Idle]

NextStartup ==
    \/ \E ok \in BOOLEAN : Connect(ok)
    \/ \E ok \in BOOLEAN : EnsureTable(ok)
    \/ \E ok \in BOOLEAN : EnsureBucket(ok)
    \/ \E force_refresh \in BOOLEAN : Serve(1, force_refresh)
    \/ Probe(1, TRUE)
    \/ CallTextOk(1, 1, TRUE)

SpecStartup == InitStartup /\ [][NextStartup]_vars

\* ------------------------------------------------- db.get_cache alone
\* The rows table cache_chatgpt may hold for the request of one user: the
\* row of a first write, or that row after a second write went over it, made
\* and last read at the times below.
EarlierTimes == {0, 10}
LaterTimes == {20, 30}
RowsOf(user_id) ==
    { r \in
        { [cache_key |-> generate_cache_key(EarlierRequest, user_id),
           request_data |-> Dumps(EarlierRequest),
           response_data |-> response_data,
           user_id |-> user_id,
           created_at |-> created_at,
           accessed_at |-> accessed_at] :
          response_data \in
            { Dumps(Result(FALSE, "none",
                           Content("chatgpt", user_id, EarlierRequest, 1), {})),
              Dumps(EarlierRequest) },
          created_at \in EarlierTimes,
          accessed_at \in EarlierTimes } :
      r.accessed_at >= r.created_at }

\* At most one row for a fingerprint
Tables ==
    { mine \cup other :
        mine \in {{}} \cup { {r} : r \in RowsOf("u1") },
        other \in {{}} \cup { {r} : r \in RowsOf("u2") } }

\* await db.get_cache("chatgpt", cache_key): the UPDATE ... RETURNING runs
\* and fetchval returns.
GetCache ==
    /\ fetch.pc = "called"
    /\ db' = [db EXCEPT !["chatgpt"] = get_cache_touch(@, fetch.cache_key, now)]
    /\ fetch' = [fetch EXCEPT
                   !.pc = "done",
                   !.result = get_cache(db["chatgpt"], fetch.cache_key)]
    /\ UNCHANGED <<now, cache_enabled, rate_limiter, minio, inv, client,
                   admitted, reply, hashing, refresh, app>>

\* A run of SpecStore starts with db.get_cache called for a fingerprint on a
\* table that holds some rows, at a time later than those of the rows.
InitStore ==
    /\ now \in LaterTimes
    /\ cache_enabled = TRUE
    /\ rate_limiter = [a \in Plugins |-> [u \in Users |-> <<>>]]
    /\ admitted = rate_limiter
    /\ \E table \in Tables :
         db = [a \in Plugins |-> IF a = "chatgpt" THEN table ELSE {}]
    /\ \E objects \in {{}, EarlierObjects} :
         minio = [a \in Plugins |-> IF a = "flux" THEN objects ELSE {}]
    /\ inv = [p \in Procs |-> Idle]
    /\ reply = NoReply
    /\ hashing = NotHashing
    /\ refresh = NoRefresh
    /\ app = Serving
    /\ client = [p \in Procs |->
                   [plugin |-> "chatgpt", user_id |-> "u1",
                    request_data |-> EarlierRequest]]
    /\ \E u \in Users :
         fetch = [pc |-> "called",
                  cache_key |-> generate_cache_key(EarlierRequest, u),
                  result |-> NoRow]

NextStore == GetCache

SpecStore == InitStore /\ [][NextStore]_vars

\* A run of SpecUnserializable starts as a run of Spec does; the first
\* client sends a request that cannot be serialized, the second any request.
InitUnserializable ==
    /\ now = 0
    /\ cache_enabled = TRUE
    /\ rate_limiter = [a \in Plugins |-> [u \in Users |->
                         Filled(RateLimitOf(a) - Slack)]]
    /\ admitted = rate_limiter
    /\ db = [a \in Plugins |-> {}]
    /\ minio = [a \in Plugins |-> {}]
    /\ inv = [p \in Procs |-> Idle]
    /\ reply = NoReply
    /\ hashing = NotHashing
    /\ refresh = NoRefresh
    /\ fetch = NoFetch
    /\ app = Serving
    /\ \E a \in Plugins, c \in Clients :
         \E request_data \in UnserializableRequests(a) :
           client = [p \in Procs |->
                       IF p = 1
                       THEN [plugin |-> a, user_id |-> "u1",
                             request_data |-> request_data]
                       ELSE c]

SpecUnserializable == InitUnserializable /\ [][Next]_vars

\* --------------------------------------------------- every call returns
\* The steps of client p's invocation once process_request is past the rate
\* limiter: the return of the awaited store call or provider call, with the
\* value, the failure or the timeout it ends in.
StepsOf(p) ==
    \/ \E store_ok \in BOOLEAN : Probe(p, store_ok)
    \/ \E ver \in 1..MaxVer, store_ok \in BOOLEAN : CallTextOk(p, ver, store_ok)
    \/ \E outcome \in {"timeout", "error"} : CallTextFail(p, outcome)
    \/ CallBlobOk(p)
    \/ \E outcome \in {"status", "no_id", "timeout", "error"} :
         CallBlobFail(p, outcome)
    \/ \E store_ok \in BOOLEAN :
         \E file_data \in FileData(inv[p]) : FetchOk(p, file_data, store_ok)
    \/ \E outcome \in {"status", "timeout", "error"} : FetchFail(p, outcome)

\* A run of SpecLive is a run of Spec in which every call a coroutine awaits
\* returns: the event loop resumes the coroutine, and the databases pool,
\* the MinIO client and the HTTP clients (timeout=...) end every call with a
\* value or an exception.
SpecLive == Init /\ [][Next]_vars /\ \A p \in Procs : WF_vars(StepsOf(p))

\* ------------------------------------------------- caching switched off
\* What an earlier run of the server, with caching on, stored for the
\* request of a client: a row for a cacheable chatgpt request, an object for
\* a flux or chatterbox request, nothing for a request that fails validation.
StoredRows(c) ==
    IF /\ ~UsesBlobStore(c.plugin)
       /\ Serializable(c.request_data)
       /\ Validate(c.plugin, c.request_data) = NoResult
       /\ Cacheable(c.request_data)
    THEN set_cache({}, generate_cache_key(c.request_data, c.user_id),
                   c.request_data,
                   Result(FALSE, "none",
                          Content(c.plugin, c.user_id, c.request_data, 1), {}),
                   c.user_id, 0)
    ELSE {}

StoredObjects(c) ==
    IF /\ UsesBlobStore(c.plugin)
       /\ Serializable(c.request_data)
       /\ Validate(c.plugin, c.request_data) = NoResult
    THEN set_file_cache({}, generate_cache_key(c.request_data, c.user_id),
                        Content(c.plugin, c.user_id, c.request_data, 1),
                        ContentTypeOf(c.plugin))
    ELSE {}

\* A run of SpecDisabled starts as a run of Spec does, with CACHE_ENABLED
\* false in the settings and with stores that hold what earlier runs stored
\* for the requests of some of the clients.
InitDisabled ==
    /\ now = 0
    /\ cache_enabled = FALSE
    /\ rate_limiter = [a \in Plugins |-> [u \in Users |->
                         Filled(RateLimitOf(a) - Slack)]]
    /\ admitted = rate_limiter
    /\ client \in [Procs -> Clients]
    /\ client[1].user_id = "u1"
    /\ PluginRank(client[1].plugin) <= PluginRank(client[2].plugin)
    /\ \E stored \in SUBSET Procs :
         /\ db = [a \in Plugins |->
                    UNION { StoredRows(client[p]) :
                            p \in {q \in stored : client[q].plugin = a} }]
         /\ minio = [a \in Plugins |->
                       UNION { StoredObjects(client[p]) :
                               p \in {q \in stored : client[q].plugin = a} }]
    /\ inv = [p \in Procs |-> Idle]
    /\ reply = NoReply
    /\ hashing = NotHashing
    /\ refresh = NoRefresh
    /\ app = Serving
    /\ fetch = NoFetch

SpecDisabled == InitDisabled /\ [][Next]_vars

\* ------------------------------------------------------------------ C36
\* The request of the invocation passes json.dumps and the plugin's rules
Valid(c) ==
    Serializable(c.request_data) /\ Validate(c.plugin, c.request_data) = NoResult

\* C36: with caching switched off no step changes a store, no result is
\* tagged from_cache, the probe of a valid request finds nothing and goes on
\* to the provider, and every admitted valid request that returned has
\* called its provider.
C36_DisabledCacheIsInert ==
    /\ [](\A p \in Procs :
            /\ inv[p].pc = "done" => ~inv[p].result.from_cache
            /\ ~inv[p].wrote
            /\ (inv[p].pc \in {"call", "fetch", "done"} /\ inv[p].allowed
                  /\ Valid(inv[p]))
               => inv[p].posts = 1)
    /\ [][/\ db' = db
          /\ minio' = minio
          /\ \A p \in Procs, store_ok \in BOOLEAN :
               (Probe(p, store_ok) /\ Valid(inv[p]))
               => inv'[p].pc = "call" /\ inv'[p].posts = 1]_vars

\* With caching off a request whose entry is in the store of its plugin,
\* sent without the force-refresh header, was answered by the provider.
C36_Witness ==
    \E p \in Procs :
      /\ ~cache_enabled
      /\ inv[p].pc = "done"
      /\ ~inv[p].force_refresh
      /\ Holds(inv[p].plugin, inv[p].cache_key)
      /\ inv[p].posts = 1
      /\ inv[p].result.error_type = "none"
      /\ ~inv[p].result.from_cache

\* =============================================================== claims
Done(p) == inv[p].pc = "done"
Active(p) == inv[p].pc # "idle"

\* The request meets the rules of its plugin: the speech plugin wants a text,
\* a supported language and a supported emotion, the image plugin a prompt,
\* the text plugin a prompt or, in the imagecsv context, image_data.
MeetsRules(plugin, request_data) ==
    CASE plugin = "chatterbox" ->
           /\ ~Falsy(Get(request_data, "text", None))
           /\ Get(request_data, "language", "en") \in supported_languages
           /\ Get(request_data, "emotion", "neutral") \in emotion_presets
      [] plugin = "flux" -> ~Falsy(Get(request_data, "prompt", None))
      [] plugin = "chatgpt" ->
           IF Get(request_data, "context", "text") = "imagecsv"
           THEN "image_data" \in DOMAIN request_data
           ELSE ~Falsy(Get(request_data, "prompt", None))

\* C1: for every plugin, a call without force_refresh that the rate limiter
\* admits and whose probe finds an entry for its fingerprint in the plugin's
\* store (no store call failing) returns a result tagged from_cache = TRUE
\* and issues no call to the provider.
C1_HitIsServedFromCache ==
    \A p \in Procs :
      ( /\ Active(p)
        /\ ~inv[p].force_refresh
        /\ inv[p].allowed
        /\ inv[p].probed
        /\ inv[p].held
        /\ ~inv[p].store_error )
      => /\ Done(p)
         /\ inv[p].result.from_cache
         /\ inv[p].posts = 0

\* C2: with an entry for its fingerprint in the store, an admitted call with
\* force_refresh whose request meets the rules never reads the cache and
\* issues the generation call to the provider.
C2_ForceRefreshSkipsTheRead ==
    \A p \in Procs :
      ( /\ Active(p)
        /\ inv[p].force_refresh
        /\ inv[p].allowed
        /\ inv[p].held
        /\ MeetsRules(inv[p].plugin, inv[p].request_data) )
      => /\ ~inv[p].probed
         /\ inv[p].posts = 1

\* a forced call that found an entry in place, went to the provider and
\* returned the provider's answer
C2_Witness ==
    \E p \in Procs :
      /\ Done(p)
      /\ inv[p].force_refresh
      /\ inv[p].held
      /\ inv[p].posts = 1
      /\ inv[p].result.error_type = "none"
      /\ ~inv[p].result.from_cache

\* What the plugin's store holds for the fingerprint of invocation c, and
\* what it holds when it holds the result of c.
StoredIn(tables, buckets, c) ==
    IF UsesBlobStore(c.plugin)
    THEN get_file_cache(buckets[c.plugin], c.cache_key)
    ELSE get_cache(tables[c.plugin], c.cache_key)

AsStored(c) ==
    IF UsesBlobStore(c.plugin) THEN c.result.body ELSE Dumps(c.result)

\* C3: when a call with force_refresh returns the provider's answer for a
\* cacheable request (no store call failing), the plugin's store holds that
\* answer for the fingerprint, also when an entry was there before.
C3_ForceRefreshWritesThrough ==
    [][\A p \in Procs :
         ( /\ inv[p].pc # "done"
           /\ inv'[p].pc = "done"
           /\ inv'[p].force_refresh
           /\ inv'[p].result.error_type = "none"
           /\ Cacheable(inv'[p].request_data)
           /\ ~inv'[p].store_error )
         => StoredIn(db', minio', inv'[p]) = AsStored(inv'[p])]_vars

\* C4: a put into the structured store leaves exactly one row for the
\* fingerprint, and a get that follows returns the response payload of that
\* put, whether or not a row was there before.
C4_UpsertLastWriteWins ==
    [][\A p \in Procs :
         ( /\ inv[p].pc = "call"
           /\ inv'[p].pc = "done"
           /\ inv'[p].wrote
           /\ ~UsesBlobStore(inv'[p].plugin) )
         => /\ Cardinality({ r \in db'[inv'[p].plugin] :
                               r.cache_key = inv'[p].cache_key }) = 1
            /\ get_cache(db'[inv'[p].plugin], inv'[p].cache_key)
                 = Dumps(inv'[p].result)]_vars

\* C5: a chatgpt call for a cacheable context, without force_refresh, that
\* is admitted and finds the row an earlier identical call wrote returns the
\* answer of that earlier call tagged from_cache = TRUE and issues no call to
\* the provider.
C5_RepeatedTextRequestIsCached ==
    \A p \in Procs :
      ( /\ Done(p)
        /\ inv[p].plugin = "chatgpt"
        /\ Cacheable(inv[p].request_data)
        /\ ~inv[p].force_refresh
        /\ inv[p].allowed
        /\ inv[p].probed
        /\ inv[p].held
        /\ ~inv[p].store_error )
      => /\ inv[p].result.from_cache
         /\ inv[p].result.error_type = "none"
         /\ inv[p].result.body.kind = "content"
         /\ inv[p].result.body.user_id = inv[p].user_id
         /\ inv[p].result.body.request = inv[p].request_data
         /\ inv[p].posts = 0

\* C6: a result tagged from_cache = TRUE carries an answer the provider gave
\* to a call of the same plugin for the same user with the same request
\* parameters.
C6_CacheIsolation ==
    \A p \in Procs :
      (Done(p) /\ inv[p].result.from_cache)
      => /\ inv[p].result.body.kind = "content"
         /\ inv[p].result.body.plugin = inv[p].plugin
         /\ inv[p].result.body.user_id = inv[p].user_id
         /\ inv[p].result.body.request = inv[p].request_data

\* a cached result is returned while the bucket of the plugin also holds the
\* other user's entry for the same request and the bucket of the other blob
\* plugin exists beside it
C6_Witness ==
    \E p \in Procs :
      /\ Done(p)
      /\ inv[p].result.from_cache
      /\ \E o \in minio[inv[p].plugin] :
           /\ o.key.request = inv[p].request_data
           /\ o.key.user_id # inv[p].user_id
           /\ o.data # inv[p].result.body

\* Client p calls process_request in this step.
Calls(p) == inv[p].pc \in {"idle", "done"} /\ inv'[p].pc # "idle"

\* C7: a call of user U to a plugin with limit N is admitted exactly when
\* fewer than N calls of U to that plugin were admitted during the 60 seconds
\* before it: the N-th call within a minute passes, the (N+1)-th is rejected,
\* and a call passes again once the admissions are 60 seconds old.
C7_RateLimitBoundary ==
    [][\A p \in Procs :
         Calls(p) =>
           ( inv'[p].allowed <=>
               Len(admitted[inv'[p].plugin][inv'[p].user_id])
                 < RateLimitOf(inv'[p].plugin) )]_vars

\* a call is rejected after the clock advanced, the admissions that fill the
\* window made at two different times
C7_Witness ==
    \E p \in Procs :
      /\ Done(p)
      /\ ~inv[p].allowed
      /\ now >= TickStep
      /\ LET w == rate_limiter[inv[p].plugin][inv[p].user_id]
         IN  Len(w) = RateLimitOf(inv[p].plugin) /\ w[1] # w[Len(w)]

\* C8: with calls of one user to one plugin in flight side by side, no
\* admission is lost: the window holds at most the limit, never more than
\* the limit is admitted within a minute, and the window, pruned, lists
\* exactly the admissions of the last minute.
C8_NoLostUpdate ==
    \A a \in Plugins, u \in Users :
      /\ Len(rate_limiter[a][u]) <= RateLimitOf(a)
      /\ Len(admitted[a][u]) <= RateLimitOf(a)
      /\ Prune(rate_limiter[a][u], now) = admitted[a][u]

\* a call of the user is rejected while another call of the same user to
\* the same plugin is still in flight
C8_Witness ==
    \E p, q \in Procs :
      /\ p # q
      /\ inv[p].pc = "probe"
      /\ Done(q)
      /\ ~inv[q].allowed
      /\ inv[q].plugin = inv[p].plugin
      /\ inv[q].user_id = inv[p].user_id

\* C9: a call the rate limiter rejects returns the rate_limit result and
\* nothing else happens in it: no probe of a store, no call to the provider,
\* no write, also when the store holds an entry for the request.
C9_RejectedCallDoesNothing ==
    \A p \in Procs :
      (Active(p) /\ ~inv[p].allowed)
      => /\ Done(p)
         /\ inv[p].result = Error("rate_limit")
         /\ ~inv[p].probed
         /\ inv[p].posts = 0
         /\ inv[p].gets = 0
         /\ ~inv[p].wrote

\* a call is rejected while the store holds an entry for its fingerprint
C9_Witness ==
    \E p \in Procs :
      /\ Done(p)
      /\ ~inv[p].allowed
      /\ inv[p].held
      /\ Holds(inv[p].plugin, inv[p].cache_key)

\* The error types the plugins return for a request that breaks their rules
ValidationErrors ==
    {"missing_text", "invalid_language", "invalid_emotion", "missing_prompt",
     "missing_image"}

\* The rules as the statement lists them: the speech plugin wants a text, a
\* supported language and a supported emotion, the image and the text
\* plugin a prompt.
MeetsListedRules(plugin, request_data) ==
    IF plugin = "chatterbox"
    THEN MeetsRules(plugin, request_data)
    ELSE ~Falsy(Get(request_data, "prompt", None))

\* What holds of an admitted call for a request that breaks the rules
Refused(c) ==
    /\ c.pc \in {"probe", "done"}
    /\ c.posts = 0
    /\ c.gets = 0
    /\ ~c.wrote
    /\ c.pc = "done" =>
         /\ c.result.error_type \in ValidationErrors
         /\ ~c.result.from_cache
         /\ c.result.body = NoBody
         /\ ( /\ c.plugin = "chatterbox"
              /\ ~Falsy(Get(c.request_data, "text", None))
              /\ Get(c.request_data, "language", "en") \notin supported_languages )
            => /\ c.result.error_type = "invalid_language"
               /\ c.result.listed = supported_languages

C11_StoreFailureIsSoft ==
    [][\A p \in Procs :
         /\ ( /\ inv[p].pc = "probe"
              /\ inv'[p].pc # "probe"
              /\ inv'[p].store_error )
            => /\ db' = db
               /\ minio' = minio
               /\ IF MeetsRules(inv[p].plugin, inv[p].request_data)
                  THEN inv'[p].pc = "call" /\ inv'[p].posts = 1
                  ELSE /\ inv'[p].pc = "done"
                       /\ inv'[p].result.error_type \in ValidationErrors
         /\ ( /\ inv[p].pc \in {"call", "fetch"}
              /\ inv'[p].pc = "done"
              /\ ~inv[p].store_error
              /\ inv'[p].store_error )
            => /\ db' = db
               /\ minio' = minio
               /\ ~inv'[p].wrote
               /\ inv'[p].result.error_type = "none"
               /\ inv'[p].result.body # NoBody]_vars

\* a call that probed a store holding an entry for its fingerprint, went to
\* the provider and failed to write the store returned the provider's answer
C11_Witness ==
    \E p \in Procs :
      /\ Done(p)
      /\ inv[p].store_error
      /\ inv[p].probed
      /\ inv[p].held
      /\ inv[p].posts = 1
      /\ ~inv[p].wrote
      /\ inv[p].result.error_type = "none"

\* The fingerprints of the objects of a bucket.  (A step of a
\* cache endpoint records the plugin and the user it was called for in
\* reply, so the formulas below look for such a step with these two.)
ObjectKeys(bucket) == { o.key : o \in bucket }

\* C12: a clear for user U1 that the database carries out removes from the
\* plugin's table exactly the rows written for U1's requests and leaves the
\* other tables and every bucket as they are; a clear without a user empties
\* the plugin's table and then the plugin's bucket and leaves the tables and
\* buckets of the other plugins as they are.
C12_ScopedClear ==
    [][/\ \A cu \in Callers, a \in {reply'.plugin}, u \in {reply'.user_id} :
            (clear_user_cache(cu, a, u, TRUE) /\ reply'.status = 200)
            => /\ db'[a] = { r \in db[a] : r.cache_key.user_id # u }
               /\ \A b \in Plugins \ {a} : db'[b] = db[b]
               /\ minio' = minio
       /\ \A cu \in Callers, a \in {reply'.plugin} :
            (clear_plugin_cache(cu, a, TRUE) /\ reply'.status = 200)
            => /\ db'[a] = {}
               /\ \A b \in Plugins \ {a} : db'[b] = db[b]
               /\ minio' = minio
               /\ reply'.pc = "blob"
       /\ clear_plugin_bucket({})
            => /\ minio'[reply.plugin] = {}
               /\ \A b \in Plugins \ {reply.plugin} : minio'[b] = minio[b]
               /\ db' = db]_vars

\* a clear for one user removed rows, and the table still holds a row of
\* the other user
C12_Witness ==
    /\ reply.endpoint = "user"
    /\ reply.status = 200
    /\ reply.removed
    /\ \E r \in db[reply.plugin] : r.cache_key.user_id # reply.user_id

\* C13: the clear for user V answers 403 exactly when the caller is not an
\* admin and is not V, the clear of a whole plugin answers 403 exactly when
\* the caller is not an admin, and a clear that answers 403 leaves both
\* stores as they are.
C13_ClearAuthorization ==
    [][/\ \A cu \in Callers, a \in {reply'.plugin}, u \in {reply'.user_id},
             db_ok \in BOOLEAN :
            clear_user_cache(cu, a, u, db_ok)
            => /\ reply'.status = 403
                    <=> (cu.role # "admin" /\ cu.user_id # u)
               /\ reply'.status = 403 => (db' = db /\ minio' = minio)
       /\ \A cu \in Callers, a \in {reply'.plugin}, db_ok \in BOOLEAN :
            clear_plugin_cache(cu, a, db_ok)
            => /\ reply'.status = 403 <=> cu.role # "admin"
               /\ reply'.status = 403 => (db' = db /\ minio' = minio)]_vars

\* a clear for a user was refused while the table held rows of that user
C13_Witness ==
    /\ reply.endpoint = "user"
    /\ reply.status = 403
    /\ reply.plugin \in Plugins
    /\ \E r \in db[reply.plugin] : r.cache_key.user_id = reply.user_id

\* C14: a clear for a user leaves every bucket as it is, and an object
\* leaves a bucket only in the second half of a clear of the whole plugin.
C14_NoBlobClearPerUser ==
    [][/\ \A cu \in Callers, a \in {reply'.plugin}, u \in {reply'.user_id},
             db_ok \in BOOLEAN :
            clear_user_cache(cu, a, u, db_ok) => minio' = minio
       /\ (\E a \in Plugins : ~(ObjectKeys(minio[a]) \subseteq ObjectKeys(minio'[a])))
            => /\ reply.pc = "blob"
               /\ reply.endpoint = "plugin"
               /\ reply'.pc = "done"]_vars

\* a request of user U to a blob plugin is answered from the cache after a
\* clear for U in that plugin was carried out
C14_Witness ==
    \E p \in Procs :
      /\ reply.pc = "done"
      /\ reply.endpoint = "user"
      /\ reply.status = 200
      /\ reply.plugin = inv[p].plugin
      /\ reply.user_id = inv[p].user_id
      /\ UsesBlobStore(inv[p].plugin)
      /\ Done(p)
      /\ inv[p].result.from_cache

\* C20: a request dispatched under a name that is not registered is
\* answered 404; no invocation of a plugin starts, and the rate windows, the
\* tables and the buckets stay as they are.
C20_UnknownPluginIsNotFound ==
    [][\A p \in Procs, plugin_name \in UnknownNames, force_refresh \in BOOLEAN :
         process_plugin_request(p, plugin_name, client[p].user_id,
                                client[p].request_data, force_refresh)
         => /\ reply'.status = 404
            /\ reply'.endpoint = "process"
            /\ \A q \in Procs : inv'[q] = inv[q] \/ inv'[q] = Idle
            /\ rate_limiter' = rate_limiter
            /\ admitted' = admitted
            /\ db' = db
            /\ minio' = minio]_vars

\* a request under an unknown name was answered 404 while a window had
\* room and a store held an entry
C20_Witness ==
    /\ reply.endpoint = "process"
    /\ reply.status = 404
    /\ reply.plugin \in UnknownNames
    /\ \E a \in Plugins : db[a] # {} \/ minio[a] # {}
    /\ \E a \in Plugins, u \in Users : Len(rate_limiter[a][u]) < RateLimitOf(a)

\* The error types of a provider that answered with a failure
BackendErrors == {"api_error", "image_retrieval_failed", "audio_retrieval_failed"}

\* C15: for each plugin, a provider call that times out gives a result of
\* type timeout, and a provider that answers with a failure status (for
\* chatgpt: the client raises for it) gives a result of a backend error type,
\* which is not timeout.
C15_TimeoutAndBackendErrorAreTyped ==
    [][\A p \in Procs :
         /\ ( \/ CallTextFail(p, "timeout")
              \/ CallBlobFail(p, "timeout")
              \/ FetchFail(p, "timeout") )
            => inv'[p].result.error_type = "timeout"
         /\ ( \/ CallTextFail(p, "error")
              \/ CallBlobFail(p, "status")
              \/ FetchFail(p, "status") )
            => inv'[p].result.error_type \in BackendErrors]_vars

ErrorTypes ==
    ValidationErrors \cup BackendErrors
      \cup {"rate_limit", "timeout", "generation_failed"}

\* C17: an invocation of process_request ends with a result and in no other
\* way; an error result carries an error type and a message; and the step
\* in which a provider call fails leaves the rate windows, the stores and
\* the invocations of the other clients as they are.
C17_ResultNeverFault ==
    /\ [](\A p \in Procs :
            /\ inv[p].pc \in {"idle", "probe", "call", "fetch", "done"}
            /\ Done(p) =>
                 \/ /\ inv[p].result.error_type = "none"
                    /\ inv[p].result.body # NoBody
                 \/ /\ inv[p].result.error_type \in ErrorTypes
                    /\ "error" \in DOMAIN inv[p].result
                    /\ ~inv[p].result.from_cache)
    /\ [][\A p \in Procs :
            ( /\ inv[p].pc \in {"call", "fetch"}
              /\ inv'[p].pc = "done"
              /\ inv'[p].result.error_type # "none" )
            => /\ rate_limiter' = rate_limiter
               /\ db' = db
               /\ minio' = minio
               /\ \A q \in Procs \ {p} :
                    inv'[q] = inv[q] \/ (Done(q) /\ inv'[q] = Idle)]_vars

\* the chatgpt plugin found the JSON text of an earlier result in its table
\* and returned an error result for it
C17_Witness ==
    \E p \in Procs :
      /\ Done(p)
      /\ inv[p].plugin = "chatgpt"
      /\ inv[p].probed
      /\ inv[p].held
      /\ inv[p].posts = 0
      /\ inv[p].result.error_type = "api_error"

\* C18: no table ever holds a row for a request in the imagecsv context,
\* an admitted chatgpt call in that context that carries image_data goes to
\* the provider every time and writes nothing, and a chatgpt call in another
\* context that returns the provider's answer has written the table, which
\* then holds a row for its fingerprint (no store call failing).
C18_ImageContextIsNotCached ==
    /\ [](/\ \A a \in Plugins : \A r \in db[a] : Cacheable(r.cache_key.request)
          /\ \A p \in Procs :
               ( /\ Active(p)
                 /\ inv[p].allowed
                 /\ inv[p].plugin = "chatgpt"
                 /\ Get(inv[p].request_data, "context", "text") = "imagecsv"
                 /\ "image_data" \in DOMAIN inv[p].request_data )
               => /\ ~inv[p].held
                  /\ ~inv[p].wrote
                  /\ inv[p].pc \in {"probe", "call", "done"}
                  /\ inv[p].pc \in {"call", "done"} => inv[p].posts = 1)
    /\ [][\A p \in Procs :
            ( /\ inv[p].pc = "call"
              /\ inv'[p].pc = "done"
              /\ inv'[p].plugin = "chatgpt"
              /\ inv'[p].result.error_type = "none"
              /\ Get(inv'[p].request_data, "context", "text") # "imagecsv"
              /\ ~inv'[p].store_error )
            => /\ inv'[p].wrote
               /\ Hit(db'["chatgpt"], inv'[p].cache_key)]_vars

\* a call in the imagecsv context returned the provider's answer after a
\* probe of the table, which holds nothing for it
C18_Witness ==
    \E p \in Procs :
      /\ Done(p)
      /\ inv[p].plugin = "chatgpt"
      /\ Get(inv[p].request_data, "context", "text") = "imagecsv"
      /\ inv[p].probed
      /\ inv[p].result.error_type = "none"
      /\ inv[p].posts = 1
      /\ ~Hit(db["chatgpt"], inv[p].cache_key)

\* ------------------------------------------------------------------ C19
\* C19: two calls of generate_cache_key return the same fingerprint when
\* their mappings hold the same key/value pairs, in whatever order they were
\* built, and the user id is the same; they return different fingerprints
\* when a value of the mapping or the user id differs.
C19_FingerprintDeterminism ==
    hashing.pc = "hashed" =>
      LET a == hashing.first
          b == hashing.second
          same == /\ Pairs(a.request_data) = Pairs(b.request_data)
                  /\ a.user_id = b.user_id
      IN  /\ same => a.cache_key = b.cache_key
          /\ ~same => a.cache_key # b.cache_key

\* Two mappings of the same pairs, built in different orders, were
\* fingerprinted for one user and the fingerprints are equal.
C19_Witness ==
    /\ hashing.pc = "hashed"
    /\ hashing.first.request_data # hashing.second.request_data
    /\ Pairs(hashing.first.request_data) = Pairs(hashing.second.request_data)
    /\ Len(hashing.first.request_data) = MaxItems
    /\ hashing.first.user_id = hashing.second.user_id
    /\ hashing.first.cache_key = hashing.second.cache_key

\* ------------------------------------------------------------------ C21
\* Two characters that are the same letter, capital or small
SameLetter(c, d) ==
    \/ c = d
    \/ \E k \in DOMAIN Uppercase : {c, d} = {Uppercase[k], Lowercase[k]}

EqualIgnoringCase(str, other) ==
    /\ Len(str) = Len(other)
    /\ \A i \in DOMAIN str : SameLetter(str[i], other[i])

\* C21: should_force_refresh returns True exactly when some header's name is
\* the configured force-refresh header name, ignoring case, and that
\* header's value is "true", "1" or "yes", ignoring case; for every other
\* header dictionary it returns False.
C21_ForceRefreshHeader ==
    refresh.pc = "done" =>
      (refresh.result <=>
         \E header \in DOMAIN refresh.headers :
           /\ EqualIgnoringCase(header, force_refresh_header)
           /\ \E value \in truthy_values :
                EqualIgnoringCase(refresh.headers[header], value))

\* The header was sent under another spelling of its name with a value in
\* capitals, beside a header that does not count, and the call returned True.
C21_Witness ==
    /\ refresh.pc = "done"
    /\ refresh.result
    /\ Cardinality(DOMAIN refresh.headers) = MaxHeaders
    /\ force_refresh_header \notin DOMAIN refresh.headers
    /\ \A header \in DOMAIN refresh.headers :
         refresh.headers[header] \notin truthy_values

\* ------------------------------------------------------------------ C22
\* A request was taken: a client's invocation is under way or returned, a
\* rate window holds an admission, or an endpoint answered.
RequestTaken ==
    \/ \E p \in Procs : inv[p].pc # "idle"
    \/ \E a \in Plugins, u \in Users : rate_limiter[a][u] # <<>>
    \/ reply # NoReply

\* C22: when a call of the startup fails (the connection, or the creation of
\* the table or of the bucket of a registered plugin) the startup is aborted
\* and the server is never in the state in which it serves requests; and a
\* request is taken only when the table and the bucket of every registered
\* plugin have been provisioned.
C22_ProvisioningFailureIsFatal ==
    /\ app.failed => app.pc = "aborted" /\ ~RequestTaken
    /\ RequestTaken =>
         /\ app.pc = "serving"
         /\ app.ensured = {"table", "bucket"} \X Plugins
         /\ app.tables = Plugins
         /\ app.buckets = Plugins

\* The bucket of the second plugin could not be made, after the partitions
\* of the first were: the startup is aborted.
C22_Witness ==
    /\ app.pc = "aborted"
    /\ app.at = 2
    /\ <<"table", PluginOrder[2]>> \in app.ensured
    /\ <<"bucket", PluginOrder[2]>> \notin app.ensured

\* ------------------------------------------------------------------ C29
\* C29: create_plugin_table and create_plugin_bucket, called for a plugin
\* whose table or bucket exists already (and with the store answering),
\* succeed, leave the tables and buckets there are as they are, and leave
\* every cache entry of both stores unchanged.
C29_EnsureIsIdempotent ==
    [][ /\ (EnsureTable(TRUE) /\ PluginOrder[app.at] \in app.tables) =>
             /\ app'.pc # "aborted"
             /\ <<"table", PluginOrder[app.at]>> \in app'.ensured
             /\ app'.tables = app.tables /\ app'.buckets = app.buckets
             /\ db' = db /\ minio' = minio
        /\ (EnsureBucket(TRUE) /\ PluginOrder[app.at] \in app.buckets) =>
             /\ app'.pc # "aborted"
             /\ <<"bucket", PluginOrder[app.at]>> \in app'.ensured
             /\ app'.tables = app.tables /\ app'.buckets = app.buckets
             /\ db' = db /\ minio' = minio ]_vars

\* The startup went through over the tables, buckets and entries an earlier
\* run left: lifespan yielded, no request was taken yet, and the entries
\* are all there.
C29_Witness ==
    /\ app.pc = "serving"
    /\ ~RequestTaken
    /\ db["chatgpt"] = EarlierRows
    /\ minio["flux"] = EarlierObjects

\* ------------------------------------------------------------------ C23
\* The entries the designated store of a plugin holds for a fingerprint
EntriesFor(plugin, cache_key) ==
    IF UsesBlobStore(plugin)
    THEN { o \in minio[plugin] : o.key = cache_key }
    ELSE { r \in db[plugin] : r.cache_key = cache_key }

\* C23: identical requests are not merged: two concurrent requests of one
\* user may both miss the cache and both call the provider.  Whatever the
\* interleaving, the store never holds two entries for one fingerprint, and
\* holds exactly one once a call wrote its result.
C23_NoSingleFlightOneEntry ==
    /\ \A a \in Plugins, p \in Procs :
         Cardinality(EntriesFor(a, inv[p].cache_key)) <= 1
    /\ \A p \in Procs :
         inv[p].pc = "done" /\ inv[p].wrote =>
           Cardinality(EntriesFor(inv[p].plugin, inv[p].cache_key)) = 1

\* Two clients sent the same request as the same user, unforced: both
\* probed the cache and missed, and the provider call of both is under way.
C23_Witness ==
    /\ client[1] = client[2]
    /\ \A p \in Procs :
         /\ inv[p].pc = "call"
         /\ inv[p].plugin = "chatgpt"
         /\ ~inv[p].force_refresh
         /\ inv[p].probed /\ ~inv[p].held
         /\ inv[p].posts = 1
    /\ inv[1].cache_key = inv[2].cache_key
    /\ Cacheable(inv[1].request_data)

\* ------------------------------------------------------------------ C24
\* The fingerprints of the rows of a table
RowKeys(table) == { r.cache_key : r \in table }

\* C24: no step of request processing (the admission, the probe, the
\* validation, the provider calls, the write, whether they succeed or fail)
\* removes a fingerprint from a table or from a bucket.
C24_OnlyClearsDelete ==
    [][ \A a \in Plugins :
          /\ RowKeys(db[a]) \subseteq RowKeys(db'[a])
          /\ ObjectKeys(minio[a]) \subseteq ObjectKeys(minio'[a]) ]_vars

\* A request found the entry an earlier request had written, and the entry
\* is still there after it was read.
C24_Witness ==
    \E p \in Procs :
      /\ inv[p].pc = "done"
      /\ inv[p].probed /\ inv[p].held
      /\ ~UsesBlobStore(inv[p].plugin)
      /\ EntriesFor(inv[p].plugin, inv[p].cache_key) # {}

\* ------------------------------------------------------------------ C25
\* Row r2 is row r with nothing but accessed_at changed, which is ts.
Touched(r, r2, ts) ==
    /\ r2.cache_key = r.cache_key
    /\ r2.response_data = r.response_data
    /\ r2.request_data = r.request_data
    /\ r2.user_id = r.user_id
    /\ r2.created_at = r.created_at
    /\ r2.accessed_at = ts

\* C25: db.get_cache for a fingerprint the table holds returns the
\* response_data stored in its row and sets accessed_at of that row to the
\* current time, leaving the row's other columns, the other rows and the
\* other stores as they are; for a fingerprint the table does not hold it
\* returns None and changes nothing.
C25_GetTouchesOnlyAccessedAt ==
    [][ GetCache =>
          LET table == db["chatgpt"]
              found == { r \in table : r.cache_key = fetch.cache_key }
          IN  /\ \A a \in Plugins \ {"chatgpt"} : db'[a] = db[a]
              /\ minio' = minio
              /\ IF found = {}
                 THEN /\ fetch'.result = NoRow
                      /\ db' = db
                 ELSE /\ \A r \in found : fetch'.result = r.response_data
                      /\ table \ found \subseteq db'["chatgpt"]
                      /\ Cardinality(db'["chatgpt"]) = Cardinality(table)
                      /\ \A r \in found :
                           \E r2 \in db'["chatgpt"] : Touched(r, r2, now) ]_vars

\* get_cache returned the payload of a row made and last read earlier, beside
\* another user's row: the row read carries the time of the call as
\* accessed_at and its old created_at, the other row is as it was.
C25_Witness ==
    /\ fetch.pc = "done"
    /\ fetch.result # NoRow
    /\ Cardinality(db["chatgpt"]) = 2
    /\ \E r \in db["chatgpt"] :
         /\ r.cache_key = fetch.cache_key
         /\ r.accessed_at = now
         /\ r.created_at < now
    /\ \E r \in db["chatgpt"] :
         /\ r.cache_key # fetch.cache_key
         /\ r.accessed_at < now

\* ------------------------------------------------------------------ C26
\* The (plugin, user) pairs whose rate window a step changed
WindowsChanged ==
    { k \in Plugins \X Users : rate_limiter'[k[1]][k[2]] # rate_limiter[k[1]][k[2]] }

\* C26: a call of process_request for plugin A by user U changes no rate
\* window but that of (A, U), and is admitted exactly when that window has
\* room, whatever the windows of the other plugins and users hold; no other
\* step changes a rate window.
C26_WindowsAreIndependent ==
    [][ /\ \A p \in Procs, force_refresh \in BOOLEAN :
             Begin(p, client[p].plugin, client[p].user_id,
                   client[p].request_data, force_refresh) =>
               /\ WindowsChanged \subseteq
                    {<<client[p].plugin, client[p].user_id>>}
               /\ inv'[p].allowed <=>
                    Len(Prune(rate_limiter[client[p].plugin][client[p].user_id],
                              now)) < RateLimitOf(client[p].plugin)
        /\ Cardinality(WindowsChanged) <= 1 ]_vars

\* The first client's user has used up the limit of one plugin (the call
\* just made was rejected) while a call of the same user to another plugin
\* was admitted and is under way.
C26_Witness ==
    /\ client[1].user_id = client[2].user_id
    /\ client[1].plugin # client[2].plugin
    /\ inv[1].pc = "done"
    /\ ~inv[1].allowed
    /\ Len(rate_limiter[client[1].plugin][client[1].user_id])
         = RateLimitOf(client[1].plugin)
    /\ inv[2].pc \in {"probe", "call", "fetch"}
    /\ inv[2].allowed

\* ------------------------------------------------------------------ C27
\* Window w2 is what is left of window w when its timestamps of more than a
\* minute before t are dropped and nothing is added.
OnlyPruned(w, w2, t) ==
    /\ Len(w2) <= Len(w)
    /\ \A i \in DOMAIN w2 : w2[i] = w[i + Len(w) - Len(w2)]
    /\ \A i \in DOMAIN w2 : w2[i] > t - minute
    /\ \A i \in 1..(Len(w) - Len(w2)) : ~(w[i] > t - minute)

\* C27: a rejected call adds no timestamp to the window of its user: the
\* window it leaves is the one it found without the timestamps older than
\* 60 seconds, so its oldest timestamp, which decides when the user is
\* admitted again, is the same as if the call had not been made; an
\* admitted call adds the current time.
C27_RejectedCallRecordsNothing ==
    [][\A p \in Procs :
         Calls(p) =>
           LET w == rate_limiter[inv'[p].plugin][inv'[p].user_id]
               w2 == rate_limiter'[inv'[p].plugin][inv'[p].user_id]
           IN  IF inv'[p].allowed
               THEN /\ Len(w2) >= 1
                    /\ w2[Len(w2)] = now
                    /\ OnlyPruned(w, SubSeq(w2, 1, Len(w2) - 1), now)
               ELSE /\ OnlyPruned(w, w2, now)
                    /\ Len(w2) = RateLimitOf(inv'[p].plugin)
                    /\ admitted' = admitted ]_vars

\* A call was rejected after the clock had advanced: the window is full of
\* earlier admissions and holds no timestamp of the time of this call.
C27_Witness ==
    \E p \in Procs :
      /\ Done(p)
      /\ ~inv[p].allowed
      /\ now >= TickStep
      /\ LET w == rate_limiter[inv[p].plugin][inv[p].user_id]
         IN  /\ Len(w) = RateLimitOf(inv[p].plugin)
             /\ \A i \in DOMAIN w : w[i] < now

\* ------------------------------------------------------------------ C28
\* C28: the chatgpt plugin reads and writes table cache_chatgpt only, the
\* flux and chatterbox plugins their buckets only: in every reachable state
\* the bucket of chatgpt and the tables of flux and chatterbox are empty,
\* and a call that wrote its result left it in the store of its plugin.
C28_StoreRouting ==
    /\ minio["chatgpt"] = {}
    /\ db["flux"] = {}
    /\ db["chatterbox"] = {}
    /\ \A p \in Procs :
         inv[p].pc = "done" /\ inv[p].wrote =>
           IF inv[p].plugin = "chatgpt"
           THEN inv[p].cache_key \in RowKeys(db["chatgpt"])
           ELSE inv[p].cache_key \in ObjectKeys(minio[inv[p].plugin])

\* The text plugin and a blob plugin both served a request and wrote their
\* results: the table of the one and the bucket of the other hold an entry.
C28_Witness ==
    /\ db["chatgpt"] # {}
    /\ \E a \in {"flux", "chatterbox"} : minio[a] # {}
    /\ \E p \in Procs :
         inv[p].pc = "done" /\ inv[p].wrote /\ UsesBlobStore(inv[p].plugin)

\* ------------------------------------------------------------------ C30
\* C30: a request whose parameters cannot be serialized for the fingerprint
\* is rejected with an error of the invalid-input kind (the types of the
\* validation errors), and nothing is read from or written to a cache store
\* and no provider is called for it.
C30_UnserializableIsInvalidInput ==
    \A p \in Procs :
      (inv[p].pc = "done" /\ inv[p].allowed
         /\ ~Serializable(inv[p].request_data))
      => /\ inv[p].result.error_type \in ValidationErrors
         /\ ~inv[p].probed /\ ~inv[p].wrote /\ inv[p].posts = 0

\* ------------------------------------------------------------------ C31
\* C31: an admitted call of process_request adds exactly one timestamp to
\* the window of its user, and no later step of it (the probe that hits,
\* the validation that rejects, the provider call that fails or succeeds)
\* changes a window; a call that finds the window full is rejected with the
\* rate_limit result, also when the store holds an entry for it.
C31_AdmittedCallTakesOneSlot ==
    [][ /\ \A p \in Procs :
             Calls(p) =>
               LET w == rate_limiter[inv'[p].plugin][inv'[p].user_id]
                   w2 == rate_limiter'[inv'[p].plugin][inv'[p].user_id]
               IN  /\ inv'[p].allowed => Len(w2) = Len(Prune(w, now)) + 1
                   /\ Len(Prune(w, now)) >= RateLimitOf(inv'[p].plugin) =>
                        /\ ~inv'[p].allowed
                        /\ inv'[p].pc = "done"
                        /\ inv'[p].result = Error("rate_limit")
        /\ (~ \E p \in Procs : Calls(p)) => rate_limiter' = rate_limiter ]_vars

\* Calls answered by the provider and from the cache filled the window of
\* the user: the next call is rejected although the store holds an entry
\* for its request.
C31_Witness ==
    \E p \in Procs :
      /\ inv[p].pc = "done"
      /\ ~inv[p].allowed
      /\ inv[p].held
      /\ ~inv[p].force_refresh
      /\ UsesBlobStore(inv[p].plugin)
      /\ inv[p].result = Error("rate_limit")

\* ------------------------------------------------------------------ C32
\* The result process_request builds from a provider call that succeeded,
\* for the request and the user of a fingerprint
SuccessResults(plugin, cache_key) ==
    { Result(FALSE, "none",
             Content(plugin, cache_key.user_id, cache_key.request, ver), {}) :
      ver \in 1..MaxVer }

\* A step in which client p's invocation returns an error result
ReturnsError(p) ==
    /\ inv[p].pc # "done"
    /\ inv'[p].pc = "done"
    /\ inv'[p].result.error_type # "none"

\* C32: error results are never cached.  A step that ends an invocation
\* with an error result (rate limit, validation, timeout, backend error,
\* retrieval failure) leaves both stores as they are, and every entry of a
\* store holds the result of a provider call that succeeded: a row the
\* result dictionary, an object the bytes retrieved.
C32_ErrorResultsAreNeverCached ==
    /\ [](\A a \in Plugins :
            /\ \A r \in db[a] :
                 \E result \in SuccessResults(a, r.cache_key) :
                   r.response_data = Dumps(result)
            /\ \A o \in minio[a] :
                 \/ o.data = EmptyBytes
                 \/ \E result \in SuccessResults(a, o.key) :
                      o.data = result.body)
    /\ [][\A p \in Procs :
            ReturnsError(p) => db' = db /\ minio' = minio]_vars

\* ------------------------------------------------------------------ C33
\* The fingerprints table cache_<plugin> holds for requests of a user
KeysOfUser(table, user_id) ==
    { r.cache_key : r \in { x \in table : x.cache_key.user_id = user_id } }

\* C33: the user_id column of every row is the user id that went into the
\* row's fingerprint, also after further writes to the fingerprint.  So a
\* clear for user U that the database carries out leaves no row for a
\* request of U in the plugin's table, and a row for a request of U comes
\* into a table only in a step in which a call of U returns the result of
\* the provider and writes it: until then U's probes find nothing.
C33_OwnerIsFingerprintUser ==
    /\ [](\A a \in Plugins : \A r \in db[a] : r.user_id = r.cache_key.user_id)
    /\ [][\A cu \in Callers, a \in {reply'.plugin}, u \in {reply'.user_id} :
            (clear_user_cache(cu, a, u, TRUE) /\ reply'.status = 200)
            => KeysOfUser(db'[a], u) = {}]_vars
    /\ [][\A a \in Plugins, u \in Users :
            ~(KeysOfUser(db'[a], u) \subseteq KeysOfUser(db[a], u))
            => \E p \in Procs :
                 /\ inv[p].pc = "call"
                 /\ inv'[p].pc = "done"
                 /\ inv'[p].wrote
                 /\ inv'[p].result.error_type = "none"
                 /\ inv'[p].plugin = a
                 /\ inv'[p].user_id = u]_vars

\* The clear for a user removed the rows of that user; a request of the user
\* that is under way has probed the table and found nothing, and the table
\* holds no row of the user.
C33_Witness ==
    /\ reply.endpoint = "user"
    /\ reply.status = 200
    /\ reply.removed
    /\ reply.plugin = "chatgpt"
    /\ KeysOfUser(db["chatgpt"], reply.user_id) = {}
    /\ \E p \in Procs :
         /\ inv[p].pc = "call"
         /\ inv[p].plugin = "chatgpt"
         /\ inv[p].user_id = reply.user_id
         /\ inv[p].probed /\ ~inv[p].held

\* ------------------------------------------------------------------ C34
\* C34: when the deletion of the rows fails during the clear of a whole
\* plugin, the bucket is not gone to, the entries of both stores are all
\* still there, and the endpoint answers 200 all the same.
C34_ClearSwallowsStoreFailure ==
    [][\A cu \in Callers, a \in {reply'.plugin} :
         (clear_plugin_cache(cu, a, FALSE) /\ MayClearPlugin(cu) /\ Registered(a))
         => /\ db' = db
            /\ minio' = minio
            /\ reply'.status = 200
            /\ reply'.pc = "done"
            /\ reply'.store_error
            /\ ~reply'.removed]_vars

\* The clear of a plugin whose deletion failed has answered 200, and the
\* store of the plugin holds an entry.
C34_Witness ==
    /\ reply.endpoint = "plugin"
    /\ reply.status = 200
    /\ reply.pc = "done"
    /\ reply.store_error
    /\ ~reply.removed
    /\ reply.plugin \in Plugins
    /\ db[reply.plugin] # {} \/ minio[reply.plugin] # {}

\* ------------------------------------------------------------------ C35
\* The invocations in flight: past the rate limiter and not yet returned
InFlight == {p \in Procs : inv[p].pc \notin {"idle", "done"}}

\* C35: a clear of a whole plugin leaves every request in flight where it
\* is, in both of its halves, so a request that missed the cache before the
\* clear goes on to its provider and writes its result after the clear.
C35_ClearDoesNotFence ==
    [][/\ \A cu \in Callers, a \in {reply'.plugin}, db_ok \in BOOLEAN :
            clear_plugin_cache(cu, a, db_ok)
            => \A p \in InFlight : inv'[p] = inv[p]
       /\ \A kept \in SUBSET Listed :
            clear_plugin_bucket(kept)
            => \A p \in InFlight : inv'[p] = inv[p]]_vars

\* The clear of a whole plugin has answered 200 with no store call failing,
\* the plugin has admitted no request since, and a request of it that probed
\* the cache and missed has just written its result: the plugin's partition
\* holds it.
C35_Witness ==
    /\ reply.endpoint = "plugin"
    /\ reply.status = 200
    /\ reply.pc = "done"
    /\ ~reply.store_error
    /\ reply.plugin \in Plugins
    /\ reply.started = Admissions(reply.plugin)
    /\ \E p \in reply.missed :
         /\ inv[p].pc = "done"
         /\ inv[p].plugin = reply.plugin
         /\ inv[p].probed
         /\ inv[p].posts = 1
         /\ inv[p].wrote
         /\ Holds(inv[p].plugin, inv[p].cache_key)
         /\ \A q \in Procs \ {p} : inv[q].plugin = reply.plugin => inv[q].pc = "idle"

\* ------------------------------------------------------------------ C37
\* The invocation is past the rate limiter and has not returned
Running(p) == inv[p].pc \in {"probe", "call", "fetch"}

\* Every invocation that is under way returns.
C37_Terminates == \A p \in Procs : Running(p) ~> inv[p].pc = "done"

\* An invocation has a result when it has returned and none before, and a
\* result tagged from_cache comes from an invocation that called no provider.
C37_OneResult ==
    \A p \in Procs :
      /\ inv[p].pc = "done" <=> inv[p].result # NoResult
      /\ inv[p].result.from_cache => inv[p].posts = 0 /\ inv[p].gets = 0

\* The outcomes of process_request: rate-limited, the cached payload, a
\* validation error, a backend error or a timeout of a provider that was
\* called, the fresh result of a provider that was called.
Outcome(c) ==
    \/ ~c.allowed /\ c.result = Error("rate_limit")
    \/ /\ c.allowed /\ c.posts = 0
       /\ c.result.from_cache /\ c.result.error_type = "none"
    \/ /\ c.allowed /\ c.posts = 0
       /\ Validate(c.plugin, c.request_data) # NoResult
       /\ c.result = Validate(c.plugin, c.request_data)
    \/ /\ c.allowed /\ c.posts = 1
       /\ ~c.result.from_cache
       /\ c.result.error_type \in
            {"api_error", "generation_failed", "image_retrieval_failed",
             "audio_retrieval_failed", "timeout", "none"}

\* C37: every invocation returns, with one result, which is one of
\* rate-limited, cached payload, validation error, backend error, timeout
\* and fresh success, and a result tagged from_cache is returned only by an
\* invocation that called no provider.
C37_EveryRequestReturnsOneListedResult ==
    /\ C37_Terminates
    /\ [](C37_OneResult)
    /\ [](\A p \in Procs : inv[p].pc = "done" => Outcome(inv[p]))

\* The invocation that returned is a chatgpt one whose probe found a row:
\* the assignment to the JSON text raised and api_error came back with no
\* provider called (see C1).
TextHit(c) ==
    /\ c.plugin = "chatgpt" /\ c.probed /\ c.held /\ c.posts = 0
    /\ c.result = Error("api_error")

\* Every other invocation that returned has one of the outcomes.
C37_OutcomesButTextHit ==
    \A p \in Procs :
      (inv[p].pc = "done" /\ ~TextHit(inv[p])) => Outcome(inv[p])

====
